---- MODULE Spec2Model ----
(***************************************************************************)
(* Model of the MQTT node server controller (nodes/Controller.py):          *)
(* configuration resolution (checkParams), the topic index, discovery /     *)
(* reconciliation (discover_cmd), the node-creation rendezvous queue, the   *)
(* inbound message router, start-up (start, the start-up handlers, poll)    *)
(* and the device handlers MQSwitch and MQDimmer.                           *)
(*                                                                         *)
(* Python strings whose characters matter (device ids, topics, prefixes,    *)
(* parameter values) are sequences of one-character strings, so that        *)
(* replace / rsplit / startswith / slicing are computed as the code         *)
(* computes them.  Python values of varying type are tagged records:        *)
(* None, PyStr(s), PyInt(n), PyList(l).                                          *)
(***************************************************************************)
EXTENDS Integers, Sequences, FiniteSets, TLC

VARIABLES
    Parameters,                 \* self.Parameters (Custom 'customparams')
    file,                       \* content of the devfile on disk
    devlist,                    \* self.devlist
    general,                    \* self.general: <<>> while the attribute does not exist, else <<dict>>
    conn,                       \* mqtt_server, mqtt_port, mqtt_user, mqtt_password, status_prefix, cmd_prefix
    discovery_in,               \* self.discovery_in
    status_topics,              \* self.status_topics (subscription list)
    status_topics_to_devices,   \* self.status_topics_to_devices (topic index)
    n_queue,                    \* self.n_queue
    numNodes,                   \* self.numNodes
    nodes,                      \* poly.getNodes(): addresses of the host's nodes, in insertion order
    pendingAcks,                \* addNode requests the host has not yet acknowledged
    pc,                         \* position of each thread that invokes discover_cmd
    walk,                       \* the list object _discover_nodes iterates, per thread
    walkIdx,                    \* index of the device under work in walk, per thread
    nodes_old,                  \* local of _discover, per thread
    nodes_new,                  \* local of _discover, per thread
    cleanIdx,                   \* index into nodes_old in _cleanup_nodes, per thread
    success,                    \* local success of discover_cmd / _discover, per thread
    result,                     \* outcome of the last discover_cmd invocation, per thread
    runCfg,                     \* configuration (Parameters, file) checkParams of the run read, per thread
    adds,                       \* addNode requests issued by the run, per thread
    dels,                       \* delNode requests issued by the run, per thread
    prevRun,                    \* final state of the most recently finished run
    mqpc,                       \* position of the MQTT callback thread in _on_message
    mqmsg,                      \* message the MQTT callback thread is handling
    lastDispatch,               \* addresses whose updateInfo the last routed message reached
    lastError,                  \* what the last routed message logged instead of, or besides, dispatching
    cpRes,                      \* outcome of the last direct checkParams call, and a flag each call flips
    uList, uEntry, uOut, uDone, \* upsert_by_id applied to a list and an entry
    fnIn, fnOut,                \* a helper called on its own: its arguments and, after the call, <<result>>
    broker,                     \* whether the user's MQTT broker is reachable
    mqttc,                      \* state of the paho client self.mqttc
    subscribed,                 \* topics subscribed on the current broker connection
    startpc,                    \* position of the thread that runs start()
    on_state,                   \* MQSwitch.on_state
    swST,                       \* the ST driver of the MQSwitch, <<>> before the first setDriver
    swReported,                 \* commands an MQSwitch reported to the host (reportCmd), oldest first
    swPublished,                \* payload of the last mqtt_pub of an MQSwitch
    dimmer,                     \* MQDimmer.dimmer
    dimOp,                      \* the MQDimmer handler that ran last
    dimReported,                \* command the last MQDimmer handler reported to the host
    dimPublished,               \* level the last MQDimmer handler published
    dimAsked,                   \* level the last MQDimmer handler handed to _set_dimmer_level
    handler_st,                 \* handler_params_st, handler_data_st, handler_typedparams_st, handler_typeddata_st
    all_handlers_st_event,      \* whether self.all_handlers_st_event is set
    ready_event,                \* whether self.ready_event is set
    ctrlST,                     \* the ST driver of the controller
    Notices,                    \* keys of self.Notices
    hb,                         \* self.hb
    pollReported                \* command the last poll event reported to the host, <<>> for none

vars == << Parameters, file, devlist, general, conn, discovery_in, status_topics,
           status_topics_to_devices, n_queue, numNodes, nodes, pendingAcks, pc, walk,
           walkIdx, nodes_old, nodes_new, cleanIdx, success, result, runCfg, adds, dels,
           prevRun, mqpc, mqmsg, lastDispatch, lastError, cpRes,
           uList, uEntry, uOut, uDone, fnIn, fnOut,
           broker, mqttc, subscribed, startpc,
           on_state, swST, swReported, swPublished, dimmer, dimOp, dimReported, dimPublished,
           dimAsked,
           handler_st, all_handlers_st_event, ready_event, ctrlST, Notices, hb, pollReported >>

-----------------------------------------------------------------------------
(* Bounds of the model *)

\* longest subscription list the model lets reconciliation build
MaxSubs == 4
\* longest list handed to upsert_by_id in the pure-function specification
MaxUpsertLen == 2
\* most commands the model lets an MQSwitch report to the host
MaxReports == 3
\* longest generated device id (and longest tail appended to the long stem)
MaxIdLen == 3

-----------------------------------------------------------------------------
(* Python values *)

None == [t |-> "none"]
PyStr(s) == [t |-> "str", v |-> s]
PyInt(n) == [t |-> "int", v |-> n]
PyList(l) == [t |-> "list", v |-> l]

IsStr(x) == x.t = "str"
IsInt(x) == x.t = "int"

\* dict.get(key) on a dict modelled as a function: None when the key is absent
DictGet(d, k) == IF k \in DOMAIN d THEN d[k] ELSE None

\* Python truthiness of a tagged value
Truthy(x) ==
    CASE x.t = "none" -> FALSE
      [] x.t = "str"  -> x.v # <<>>
      [] x.t = "int"  -> x.v # 0
      [] OTHER        -> TRUE

-----------------------------------------------------------------------------
(* Strings as sequences of characters *)

RECURSIVE Concat(_)
Concat(ss) == IF ss = <<>> THEN <<>> ELSE Head(ss) \o Concat(Tail(ss))

StartsWith(s, p) == Len(s) >= Len(p) /\ SubSeq(s, 1, Len(p)) = p

\* str.replace(old, new) for a non-empty old
RECURSIVE Replace(_, _, _)
Replace(s, old, new) ==
    IF s = <<>> THEN <<>>
    ELSE IF StartsWith(s, old)
         THEN new \o Replace(SubSeq(s, Len(old) + 1, Len(s)), old, new)
         ELSE <<Head(s)>> \o Replace(Tail(s), old, new)

\* positions of the character c in s
Positions(s, c) == {i \in 1..Len(s) : s[i] = c}

Max(S) == CHOOSE m \in S : \A x \in S : x <= m

\* s.rsplit('/', 1)[0]
RSplitHead(s) ==
    IF Positions(s, "/") = {} THEN s
    ELSE SubSeq(s, 1, Max(Positions(s, "/")) - 1)

Digits == <<"0", "1", "2", "3", "4", "5", "6", "7", "8", "9">>

\* str.isdigit()
IsDigit(s) == s # <<>> /\ \A i \in 1..Len(s) : \E d \in 1..10 : Digits[d] = s[i]

DigitVal(c) == (CHOOSE d \in 1..10 : Digits[d] = c) - 1

\* int(s) for a string of digits
RECURSIVE ToInt(_)
ToInt(s) == IF s = <<>> THEN 0 ELSE ToInt(SubSeq(s, 1, Len(s) - 1)) * 10 + DigitVal(s[Len(s)])

Upper == <<"A", "B", "C", "D", "E", "F", "G", "H", "I", "J", "K", "L", "M",
           "N", "O", "P", "Q", "R", "S", "T", "U", "V", "W", "X", "Y", "Z">>
LowerOf == <<"a", "b", "c", "d", "e", "f", "g", "h", "i", "j", "k", "l", "m",
             "n", "o", "p", "q", "r", "s", "t", "u", "v", "w", "x", "y", "z">>

\* str.lower() on one character
LowerChar(c) ==
    IF \E i \in 1..26 : Upper[i] = c
    THEN LowerOf[CHOOSE i \in 1..26 : Upper[i] = c]
    ELSE c

Lower(s) == [i \in 1..Len(s) |-> LowerChar(s[i])]

RECURSIVE Strip(_, _)
Strip(s, bad) ==
    IF s = <<>> THEN <<>>
    ELSE IF Head(s) \in bad THEN Strip(Tail(s), bad)
         ELSE <<Head(s)>> \o Strip(Tail(s), bad)

-----------------------------------------------------------------------------
(* Configuration resolution: checkParams and its helpers *)

S_localhost == <<"l", "o", "c", "a", "l", "h", "o", "s", "t">>
S_admin == <<"a", "d", "m", "i", "n">>

DefaultPort == 1884

DEFAULT_CONFIG ==
    [mqtt_server   |-> PyStr(S_localhost),
     mqtt_port     |-> PyInt(DefaultPort),
     mqtt_user     |-> PyStr(S_admin),
     mqtt_password |-> PyStr(S_admin),
     status_prefix |-> None,
     cmd_prefix    |-> None]

ConnKeys == {"mqtt_server", "mqtt_port", "mqtt_user", "mqtt_password",
             "status_prefix", "cmd_prefix"}

\* the connection attributes before _load_mqtt_parameters ever assigned them
Unset == [t |-> "unset"]
ConnUnset == [k \in ConnKeys |-> Unset]

\* mutant: an empty string is passed over like a value that is not a str
RECURSIVE _get_str_NonEmpty(_)
_get_str_NonEmpty(args) ==
    IF args = <<>> THEN None
    ELSE IF IsStr(Head(args)) /\ Head(args).v # <<>> THEN Head(args)
         ELSE _get_str_NonEmpty(Tail(args))

\* _get_str(*args): the first argument that is a str, else None
RECURSIVE _get_str(_)
_get_str(args) ==
    IF args = <<>> THEN None
    ELSE IF IsStr(Head(args)) THEN Head(args)
         ELSE _get_str(Tail(args))

\* _get_int(*args): the first argument that is an int or a string of digits
RECURSIVE _get_int(_)
_get_int(args) ==
    IF args = <<>> THEN None
    ELSE IF IsInt(Head(args)) THEN Head(args)
         ELSE IF IsStr(Head(args)) /\ IsDigit(Head(args).v) THEN PyInt(ToInt(Head(args).v))
              ELSE _get_int(Tail(args))

\* entry.get('id'): <<id>> when the key is present, <<>> (None) otherwise
IdOf(entry) == IF "id" \in DOMAIN entry THEN <<entry["id"]>> ELSE <<>>

\* mutant: the entry is appended whether or not its id is already listed
upsert_by_id_AlwaysAppend(config_list, new_entry) == Append(config_list, new_entry)

\* upsert_by_id(config_list, new_entry): replace the first entry with the same
\* id, or append
upsert_by_id(config_list, new_entry) ==
    LET hits == {i \in 1..Len(config_list) : IdOf(config_list[i]) = IdOf(new_entry)}
    IN  IF hits # {}
        THEN [config_list EXCEPT ![CHOOSE i \in hits : \A j \in hits : i <= j] = new_entry]
        ELSE Append(config_list, new_entry)

EmptyDict == [k \in {} |-> None]

DictUpdate(f, g) == [k \in DOMAIN f \cup DOMAIN g |-> IF k \in DOMAIN g THEN g[k] ELSE f[k]]

\* {k: v for d in general for k, v in d.items()}
RECURSIVE FlattenGeneral(_)
FlattenGeneral(l) ==
    IF l = <<>> THEN EmptyDict
    ELSE DictUpdate(FlattenGeneral(SubSeq(l, 1, Len(l) - 1)), l[Len(l)])

\* the comprehension over dev_yaml.get("general", []) raises unless general is
\* a list (or an empty dict) whose elements are all dicts
GeneralIterable(g) ==
    \/ g.t = "absent"
    \/ g.t = "list" /\ \A i \in 1..Len(g.v) : g.v[i].t = "dict"
    \/ g.t = "dict" /\ DOMAIN g.v = {}

GeneralDicts(g) ==
    IF g.t = "list" THEN [i \in 1..Len(g.v) |-> g.v[i].v] ELSE <<>>

Outcome(res, dl, gen, cn) == [res |-> res, devlist |-> dl, general |-> gen, conn |-> cn]

\* _load_devfile_config
_load_devfile_config(P, F, dl, gen, cn) ==
    IF ~Truthy(P.devfile) \/ ~IsStr(P.devfile) THEN Outcome("false", dl, gen, cn)
    ELSE IF F.kind \in {"oserror", "yamlerror"} THEN Outcome("false", dl, gen, cn)
    ELSE IF F.kind = "null" THEN Outcome("raised", dl, gen, cn)
    ELSE IF F.devices = <<>> THEN Outcome("false", dl, gen, cn)
    ELSE IF ~GeneralIterable(F.general) THEN Outcome("raised", F.devices[1], gen, cn)
    ELSE Outcome("true", F.devices[1], <<FlattenGeneral(GeneralDicts(F.general))>>, cn)

\* _load_devlist_config
_load_devlist_config(P, dl, gen, cn) ==
    IF ~Truthy(P.devlist) THEN Outcome("false", dl, gen, cn)
    ELSE IF P.devlist.t = "jsonstr" /\ ~P.devlist.ok THEN Outcome("false", dl, gen, cn)
    ELSE LET parsed_data == IF P.devlist.t = "jsonstr" THEN P.devlist.v ELSE P.devlist
         IN  IF parsed_data.t # "dict" THEN Outcome("false", dl, gen, cn)
             ELSE Outcome("true", upsert_by_id(dl, parsed_data.v), gen, cn)

\* _load_mqtt_parameters: reading self.general raises AttributeError while the
\* attribute does not exist, before anything is assigned
_load_mqtt_parameters(P, dl, gen, cn) ==
    IF gen = <<>> THEN Outcome("raised", dl, gen, cn)
    ELSE LET g == gen[1]
         IN  Outcome("true", dl, gen,
                [mqtt_server   |-> _get_str(<<P.mqtt_server, DictGet(g, "mqtt_server"), DEFAULT_CONFIG.mqtt_server>>),
                 mqtt_port     |-> _get_int(<<P.mqtt_port, DictGet(g, "mqtt_port"), DEFAULT_CONFIG.mqtt_port>>),
                 mqtt_user     |-> _get_str(<<P.mqtt_user, DictGet(g, "mqtt_user"), DEFAULT_CONFIG.mqtt_user>>),
                 mqtt_password |-> _get_str(<<P.mqtt_password, DictGet(g, "mqtt_password"), DEFAULT_CONFIG.mqtt_password>>),
                 status_prefix |-> _get_str(<<P.status_prefix, DictGet(g, "status_prefix")>>),
                 cmd_prefix    |-> _get_str(<<P.cmd_prefix, DictGet(g, "cmd_prefix")>>)])

\* mutant: with neither source configured the device configuration counts as loaded
LoadDevices_NoConfigOk(P, F, dl, gen, cn) ==
    IF Truthy(P.devfile) THEN _load_devfile_config(P, F, dl, gen, cn)
    ELSE IF Truthy(P.devlist) THEN _load_devlist_config(P, dl, gen, cn)
    ELSE Outcome("true", dl, gen, cn)

\* the branch of checkParams that loads the device configuration
LoadDevices(P, F, dl, gen, cn) ==
    IF Truthy(P.devfile) THEN _load_devfile_config(P, F, dl, gen, cn)
    ELSE IF Truthy(P.devlist) THEN _load_devlist_config(P, dl, gen, cn)
    ELSE Outcome("false", dl, gen, cn)

\* checkParams
checkParams(P, F, dl, gen, cn) ==
    LET r == LoadDevices(P, F, dl, gen, cn)
    IN  IF r.res # "true" THEN r
        ELSE _load_mqtt_parameters(P, r.devlist, r.general, r.conn)

-----------------------------------------------------------------------------
(* Topic registry: addresses, topic derivation, normalisation *)

AddrMaxLen == 14

\* characters poly.getValidAddress removes
BadAddressChars == {"<", ">", "`", "~", "!", "@", "#", "$", "%", "^", "&", "*", "(", ")",
                    "{", "}", "[", "]", "?", "/", "\\", ";", ":", "\"", "'", "-"}

\* mutant: the host returns the name as it is
getValidAddress_Identity(name) == name

\* poly.getValidAddress(name): re.sub(bad, "", name.lower())[:14]
getValidAddress(name) ==
    LET cleaned == Strip(Lower(name), BadAddressChars)
    IN  SubSeq(cleaned, 1, IF Len(cleaned) < AddrMaxLen THEN Len(cleaned) ELSE AddrMaxLen)

\* mutant: underscores and hyphens are both dropped from the id
_format_device_address_BothDropped(dev) ==
    getValidAddress(Replace(Replace(dev["id"], <<"_">>, <<>>), <<"-">>, <<>>))

\* _format_device_address(dev)
_format_device_address(dev) ==
    getValidAddress(Replace(Replace(dev["id"], <<"_">>, <<>>), <<"-">>, <<"_">>))

STATUS_TOPIC_PREFIX == <<"s", "t", "a", "t", "/">>
TELE_TOPIC_PREFIX == <<"t", "e", "l", "e", "/">>
RESULT_TOPIC_SUFFIX == <<"/", "R", "E", "S", "U", "L", "T">>
STATUS10_TOPIC_SUFFIX == <<"/", "S", "T", "A", "T", "U", "S", "1", "0">>

S_status == <<"/", "s", "t", "a", "t", "u", "s", "/">>
RatgdoSuffixes ==
    << S_status \o <<"a", "v", "a", "i", "l", "a", "b", "i", "l", "i", "t", "y">>,
       S_status \o <<"l", "i", "g", "h", "t">>,
       S_status \o <<"d", "o", "o", "r">>,
       S_status \o <<"m", "o", "t", "i", "o", "n">>,
       S_status \o <<"l", "o", "c", "k">>,
       S_status \o <<"o", "b", "s", "t", "r", "u", "c", "t", "i", "o", "n">> >>

\* mutant: the descriptor table also knows the type of DevUnknownType
DeviceTypes_WithToaster ==
    {"switch", "dimmer", "ifan", "sensor", "flag", "TempHumid", "Temp",
     "TempHumidPress", "distance", "shellyflood", "analog", "s31", "raw",
     "RGBW", "ratgdo", "toaster"}

\* the device types of DEVICE_CONFIG
DeviceTypes == {"switch", "dimmer", "ifan", "sensor", "flag", "TempHumid", "Temp",
                "TempHumidPress", "distance", "shellyflood", "analog", "s31", "raw",
                "RGBW", "ratgdo"}
\* the types whose descriptor has 'status_topics'
CustomTopicTypes == {"shellyflood", "ratgdo"}
\* the types whose descriptor has 'extra_status_topics'
ResultTypes == {"dimmer"}
Status10Types == {"TempHumid", "Temp", "TempHumidPress", "analog"}

\* _validate_device_definition(dev)
_validate_device_definition(dev) ==
    {"id", "status_topic", "cmd_topic", "type"} \subseteq DOMAIN dev

\* _normalize_topic raises AttributeError on a topic that is neither None nor a str
NormalizeRaises(topic) == topic.t \notin {"none", "str"}

\* mutant: the prefix is put in front of the topic, placeholder included
_normalize_topic_KeepPlaceholder(topic, prefix) ==
    IF topic.t = "none" THEN <<>>
    ELSE IF StartsWith(topic.v, <<"~">>) /\ prefix.t # "none"
         THEN prefix.v \o topic.v
         ELSE topic.v

\* _normalize_topic(topic, prefix), for a topic that is None or a str
_normalize_topic(topic, prefix) ==
    IF topic.t = "none" THEN <<>>
    ELSE IF StartsWith(topic.v, <<"~">>) /\ prefix.t # "none"
         THEN prefix.v \o Tail(topic.v)
         ELSE topic.v

\* DEVICE_CONFIG[type]['status_topics'](dev), or [dev['status_topic']]: the
\* configured status topic is a str here (already normalised); iterating a str
\* yields its characters
PrimaryTopics(dev) ==
    LET st == dev["status_topic"].v
    IN  IF dev["type"] = "shellyflood" THEN [i \in 1..Len(st) |-> <<st[i]>>]
        ELSE IF dev["type"] = "ratgdo" THEN [i \in 1..Len(RatgdoSuffixes) |-> st \o RatgdoSuffixes[i]]
        ELSE <<st>>

\* mutant: no device type has extra status topics
ExtraTopics_None(dev) == <<>>

\* DEVICE_CONFIG[type]['extra_status_topics'](dev), <<>> for a type without it
ExtraTopics(dev) ==
    LET st == dev["status_topic"].v
    IN  IF dev["type"] \in ResultTypes THEN <<RSplitHead(st) \o RESULT_TOPIC_SUFFIX>>
        ELSE IF dev["type"] \in Status10Types
             THEN <<RSplitHead(st) \o Replace(STATUS10_TOPIC_SUFFIX, TELE_TOPIC_PREFIX, STATUS_TOPIC_PREFIX)>>
             ELSE <<>>

\* the normalised topics _add_device_status_topics appends for dev, in order
DeviceTopics(dev, prefix) ==
    LET raw == PrimaryTopics(dev) \o ExtraTopics(dev)
    IN  [i \in 1..Len(raw) |-> _normalize_topic(PyStr(raw[i]), prefix)]

\* DEFAULT_SENSOR_ID of MQds, MQdht and MQbme
DEFAULT_SENSOR_ID == <<"S", "I", "N", "G", "L", "E", "_", "S", "E", "N", "S", "O", "R">>
\* the types whose node class writes its sensor_id back into the dev dict
SensorIdTypes == {"Temp", "TempHumid", "TempHumidPress"}

\* the dev dict after _create_device_node normalised its topics,
\* _add_device_status_topics stored the first extra topic in it and the node
\* constructor (MQds, MQdht, MQbme) added the sensor_id it defaulted
DevAfterCreate(dev, cn) ==
    LET d1 == [dev EXCEPT !["status_topic"] = PyStr(_normalize_topic(dev["status_topic"], cn.status_prefix)),
                          !["cmd_topic"] = PyStr(_normalize_topic(dev["cmd_topic"], cn.cmd_prefix))]
        d2 == IF ExtraTopics(d1) = <<>> THEN d1
              ELSE [k \in DOMAIN d1 \cup {"extra_status_topic"} |->
                       IF k = "extra_status_topic" THEN PyStr(ExtraTopics(d1)[1]) ELSE d1[k]]
    IN  IF dev["type"] \in SensorIdTypes /\ "sensor_id" \notin DOMAIN d2
        THEN [k \in DOMAIN d2 \cup {"sensor_id"} |->
                 IF k = "sensor_id" THEN PyStr(DEFAULT_SENSOR_ID) ELSE d2[k]]
        ELSE d2

\* _add_status_topics: the topic index after binding topics to address
BindTopics(index, topics, address) ==
    [tp \in DOMAIN index \cup {topics[i] : i \in 1..Len(topics)} |->
        IF \E i \in 1..Len(topics) : topics[i] = tp THEN address ELSE index[tp]]

\* poly.getNode(address): the node object, or None
getNode(ns, address) ==
    IF \E i \in 1..Len(ns) : ns[i] = address THEN [t |-> "node", v |-> address] ELSE None

\* the topics for which the comparison of _remove_status_topics is true: a
\* topic's address (a str) is compared with the node object poly.getNode returns
RemoveHits(index, ns, node) ==
    {tp \in DOMAIN index : PyStr(index[tp]) = getNode(ns, node)}

RECURSIVE RemoveFirst(_, _)
RemoveFirst(l, x) ==
    IF l = <<>> THEN <<>>
    ELSE IF Head(l) = x THEN Tail(l) ELSE <<Head(l)>> \o RemoveFirst(Tail(l), x)

\* _remove_status_topics(node): a hit is removed from the list and from the
\* dict under iteration, after which the iteration raises RuntimeError
_remove_status_topics(index, subs, ns, node) ==
    LET hits == RemoveHits(index, ns, node)
    IN  IF hits = {} THEN [raised |-> FALSE, index |-> index, subs |-> subs]
        ELSE LET tp == CHOOSE x \in hits : TRUE
             IN  [raised |-> TRUE,
                  index  |-> [x \in DOMAIN index \ {tp} |-> index[x]],
                  subs   |-> RemoveFirst(subs, tp)]

InSeq(l, x) == \E i \in 1..Len(l) : l[i] = x

\* mutant: the walk never finds the node among the existing ones
NodeExists_Never(ns, address) == FALSE

\* _discover_nodes: `address not in nodes_existing` is false
NodeExists(ns, address) == InSeq(ns, address)

-----------------------------------------------------------------------------
(* Inputs: device specs, devfiles and parameter sets the model draws from *)

CtrlId == <<"m", "q", "c", "t", "r", "l">>        \* Controller.id
CtrlAddress == <<"m", "q", "c", "t", "r", "l">>   \* the address mqtt-poly.py registers
\* the addresses a Controller is constructed with: by mqtt-poly.py and by the
\* fixtures of test_controller.py ("controller")
RegisteredAddresses == {CtrlAddress, <<"c", "o", "n", "t", "r", "o", "l", "l", "e", "r">>}

DevA == [id |-> <<"a">>, type |-> "switch",
         status_topic |-> PyStr(<<"~", "/", "a", "/", "P">>),
         cmd_topic |-> PyStr(<<"~", "/", "a", "/", "c">>)]
DevB == [id |-> <<"b">>, type |-> "dimmer",
         status_topic |-> PyStr(<<"s", "/", "b", "/", "P">>),
         cmd_topic |-> PyStr(<<"c", "/", "b", "/", "P">>)]
\* a devlist override of DevA: same id, another type and topics
DevA2 == [id |-> <<"a">>, type |-> "sensor",
          status_topic |-> PyStr(<<"s", "/", "a", "2">>),
          cmd_topic |-> PyStr(<<"c", "/", "a", "2">>)]
DevC == [id |-> <<"c">>, type |-> "switch",
         status_topic |-> PyStr(<<"s", "/", "c">>),
         cmd_topic |-> PyStr(<<"c", "/", "c">>)]

Dict(d) == [t |-> "dict", v |-> d]
Absent == [t |-> "absent"]

GeneralPrefix == PyList(<< Dict([status_prefix |-> PyStr(<<"s">>)]) >>)
GeneralFull ==
    PyList(<< Dict([mqtt_server |-> PyStr(<<"h">>)]), Dict([mqtt_port |-> PyStr(<<"1", "8">>)]),
              Dict([mqtt_user |-> PyStr(<<"u">>)]), Dict([status_prefix |-> PyStr(<<"s">>)]) >>)
\* general written as a mapping instead of a list of one-key mappings
GeneralMalformed == Dict([mqtt_server |-> PyStr(<<"h">>)])

YamlMap(devices, gen) == [kind |-> "map", devices |-> devices, general |-> gen]
FileUnreadable == [kind |-> "oserror", devices |-> <<>>, general |-> Absent]
FileBadYaml == [kind |-> "yamlerror", devices |-> <<>>, general |-> Absent]
FileNull == [kind |-> "null", devices |-> <<>>, general |-> Absent]
FileNoDevices == YamlMap(<<>>, GeneralPrefix)
FileAB == YamlMap(<< <<DevA, DevB>> >>, GeneralPrefix)
FileA == YamlMap(<< <<DevA>> >>, GeneralPrefix)
FileB == YamlMap(<< <<DevB>> >>, GeneralPrefix)

NoParams ==
    [devfile |-> None, devlist |-> None, mqtt_server |-> None, mqtt_port |-> None,
     mqtt_user |-> None, mqtt_password |-> None, status_prefix |-> None, cmd_prefix |-> None]
DevfilePath == PyStr(<<"f">>)
ParamsDevfile == [NoParams EXCEPT !.devfile = DevfilePath]

JsonStr(ok, parsed) == [t |-> "jsonstr", ok |-> ok, v |-> parsed]

\* explicit connection parameters: all set; a non-numeric port and an empty server
ExplicitAll ==
    [NoParams EXCEPT !.mqtt_server = PyStr(<<"x">>), !.mqtt_port = PyStr(<<"1", "9">>),
                     !.mqtt_user = PyStr(<<"v">>), !.mqtt_password = PyStr(<<"w">>),
                     !.status_prefix = PyStr(<<"p">>), !.cmd_prefix = PyStr(<<"q">>)]
ExplicitOdd ==
    [NoParams EXCEPT !.mqtt_server = PyStr(<<>>), !.mqtt_port = PyStr(<<"a", "b">>)]

\* values of the devlist parameter: a JSON object, an object already parsed,
\* text that is not JSON, JSON that is not an object
DevlistValues == {None, JsonStr(TRUE, Dict(DevA2)), Dict(DevC), JsonStr(FALSE, None),
                  JsonStr(TRUE, PyList(<<>>))}

\* the configurations of the configuration-resolution specification
CfgParams ==
    {[e EXCEPT !.devfile = f, !.devlist = d] :
        e \in {NoParams, ExplicitAll, ExplicitOdd}, f \in {None, DevfilePath}, d \in DevlistValues}
CfgFiles == {FileUnreadable, FileBadYaml, FileNull, FileNoDevices, FileAB,
             YamlMap(<< <<DevA, DevB>> >>, GeneralFull), YamlMap(<< <<DevB>> >>, GeneralMalformed),
             YamlMap(<< <<DevB>> >>, Absent)}

\* the entries and lists handed to upsert_by_id
UpsertEntries == {DevA, DevA2, DevB, DevC, [type |-> "switch"], [type |-> "flag"]}
RECURSIVE SeqsUpTo(_, _)
SeqsUpTo(S, n) ==
    IF n = 0 THEN {<<>>}
    ELSE SeqsUpTo(S, n - 1) \cup {Append(l, x) : l \in SeqsUpTo(S, n - 1), x \in S}

\* the configurations of the reconciliation specifications
MainParams == {ParamsDevfile, NoParams}
MainFiles == {FileAB, FileA, FileB}
\* the devfiles of the specifications with a second thread
RaceFiles == {FileAB, FileA}

\* a flood sensor: its status_topic is a list of topics
DevFlood == [id |-> <<"f">>, type |-> "shellyflood",
             status_topic |-> PyList(<<PyStr(<<"~", "/", "f", "/", "1">>), PyStr(<<"s", "/", "f", "/", "2">>)>>),
             cmd_topic |-> PyStr(<<"c", "/", "f">>)]
\* device specs that lack a required field, or whose type has no descriptor
DevNoId == [type |-> "switch", status_topic |-> PyStr(<<"s", "/", "n">>),
            cmd_topic |-> PyStr(<<"c", "/", "n">>)]
DevNoStatus == [id |-> <<"n">>, type |-> "switch", cmd_topic |-> PyStr(<<"c", "/", "n">>)]
DevNoCmd == [id |-> <<"n">>, type |-> "switch", status_topic |-> PyStr(<<"s", "/", "n">>)]
DevNoType == [id |-> <<"n">>, status_topic |-> PyStr(<<"s", "/", "n">>),
              cmd_topic |-> PyStr(<<"c", "/", "n">>)]
DevUnknownType == [id |-> <<"u">>, type |-> "toaster",
                   status_topic |-> PyStr(<<"s", "/", "u">>),
                   cmd_topic |-> PyStr(<<"c", "/", "u">>)]

\* a Droplet flow sensor as the docstring of MQDroplet.py configures it: type
\* droplet, a base status_topic, no cmd_topic
S_dq == <<"d", "-", "q">>
DevDroplet == [id |-> <<"q">>, type |-> "droplet", status_topic |-> PyStr(S_dq)]

\* the devfiles of the specification with device specs of several kinds
TypeFiles ==
    {YamlMap(<< dl >>, GeneralPrefix) :
        dl \in {<<DevFlood, DevA>>, <<DevA, DevFlood>>,
                <<DevNoId, DevA>>, <<DevNoStatus, DevA>>, <<DevNoCmd, DevA>>,
                <<DevNoType, DevA>>, <<DevUnknownType, DevA>>,
                <<DevA, DevNoCmd, DevUnknownType, DevB>>, <<DevDroplet, DevA>>}}

Threads == {"t1", "t2"}

\* the start-up handlers whose completion flags check_handlers tests
Handlers == {"params", "data", "typedparams", "typeddata"}

\* the messages the broker delivers in the reconciliation specifications
MainTopics == {<<"s", "/", "a", "/", "P">>, <<"s", "/", "b", "/", "R", "E", "S", "U", "L", "T">>,
               <<"x">>}
\* payloads: text that is not JSON, a JSON object without sensor keys, a bare
\* JSON scalar (an integer, true, false)
MainPayloads == {[kind |-> "text"], [kind |-> "json"], [kind |-> "scalar"]}

NoRun == [valid |-> FALSE, cfg |-> <<>>, index |-> <<>>, subs |-> <<>>, nodes |-> <<>>, res |-> "none"]

-----------------------------------------------------------------------------
(* Initial state: the controller after __init__ *)

InitControllerAt(address) ==
    /\ devlist = <<>>
    /\ general = <<>>
    /\ conn = ConnUnset
    /\ discovery_in = FALSE
    /\ status_topics = <<>>
    /\ status_topics_to_devices = <<>>
    /\ n_queue = <<>>
    /\ numNodes = 0
    /\ nodes = <<address>>
    /\ pendingAcks = <<address>>
    /\ pc = [t \in Threads |-> "idle"]
    /\ walk = [t \in Threads |-> <<>>]
    /\ walkIdx = [t \in Threads |-> 1]
    /\ nodes_old = [t \in Threads |-> <<>>]
    /\ nodes_new = [t \in Threads |-> <<>>]
    /\ cleanIdx = [t \in Threads |-> 1]
    /\ success = [t \in Threads |-> FALSE]
    /\ result = [t \in Threads |-> "none"]
    /\ runCfg = [t \in Threads |-> <<>>]
    /\ adds = [t \in Threads |-> 0]
    /\ dels = [t \in Threads |-> 0]
    /\ prevRun = NoRun
    /\ mqpc = "idle"
    /\ mqmsg = <<>>
    /\ lastDispatch = <<>>
    /\ lastError = {}
    /\ cpRes = [n |-> FALSE, res |-> "none"]
    /\ broker = "up"
    /\ mqttc = "none"
    /\ subscribed = {}
    /\ startpc = "idle"
    /\ on_state = FALSE
    /\ swST = <<>>
    /\ swReported = <<>>
    /\ swPublished = <<>>
    /\ dimmer = 0
    /\ dimOp = "none"
    /\ dimReported = <<>>
    /\ dimPublished = <<>>
    /\ dimAsked = <<>>
    /\ handler_st = [h \in Handlers |-> FALSE]
    /\ all_handlers_st_event = FALSE
    /\ ready_event = FALSE
    /\ ctrlST = 1
    /\ Notices = {}
    /\ hb = FALSE
    /\ pollReported = <<>>

\* the controller as mqtt-poly.py constructs it
InitController == InitControllerAt(CtrlAddress)

NoUpsert ==
    /\ uList = <<>>
    /\ uEntry = DevA
    /\ uOut = <<>>
    /\ uDone = FALSE

\* no helper is called on its own
NoFnCall ==
    /\ fnIn = [fn |-> "none"]
    /\ fnOut = <<>>

Init ==
    /\ InitController
    /\ NoUpsert
    /\ NoFnCall
    /\ Parameters \in MainParams
    /\ file \in MainFiles

cfgVars == << Parameters, file >>
resolverVars == << devlist, general, conn >>
indexVars == << status_topics, status_topics_to_devices >>
hostVars == << nodes, pendingAcks >>
walkVars == << walk, walkIdx, nodes_old, nodes_new, cleanIdx >>
runVars == << success, result, runCfg, adds, dels, prevRun >>
mqVars == << mqpc, mqmsg, lastDispatch, lastError >>
harnessVars == << cpRes, uList, uEntry, uOut, uDone, fnIn, fnOut >>
linkVars == << broker, mqttc, subscribed, startpc >>
nodeVars == << on_state, swST, swReported, swPublished, dimmer, dimOp, dimReported, dimPublished,
              dimAsked >>
handlerVars == << handler_st, all_handlers_st_event >>
lifeVars == << handlerVars, ready_event, ctrlST, Notices, hb, pollReported >>

-----------------------------------------------------------------------------
(* discover_cmd, step by step, for an invoking thread t *)

\* discover_cmd: the guard `if self.discovery_in: return success`
DiscoverGuard(t) ==
    /\ pc[t] = "idle"
    /\ IF discovery_in
       THEN /\ result' = [result EXCEPT ![t] = "rejected"]
            /\ UNCHANGED << pc, success, adds, dels >>
       ELSE /\ pc' = [pc EXCEPT ![t] = "set"]
            /\ result' = [result EXCEPT ![t] = "running"]
            /\ success' = [success EXCEPT ![t] = FALSE]
            /\ adds' = [adds EXCEPT ![t] = 0]
            /\ dels' = [dels EXCEPT ![t] = 0]
    /\ UNCHANGED << linkVars, lifeVars, nodeVars, cfgVars, resolverVars, discovery_in, indexVars, n_queue, numNodes,
                    hostVars, walkVars, runCfg, prevRun, mqVars, harnessVars >>

\* discover_cmd: `self.discovery_in = True`
DiscoverSetFlag(t) ==
    /\ pc[t] = "set"
    /\ discovery_in' = TRUE
    /\ pc' = [pc EXCEPT ![t] = "checkParams"]
    /\ UNCHANGED << linkVars, lifeVars, nodeVars, cfgVars, resolverVars, indexVars, n_queue, numNodes, hostVars,
                    walkVars, runVars, mqVars, harnessVars >>

\* discover_cmd: `self.checkParams()`; an exception of checkParams leaves
\* discover_cmd at once, a False result goes to the release of the flag
DiscoverCheckParams(t) ==
    /\ pc[t] = "checkParams"
    /\ LET r == checkParams(Parameters, file, devlist, general, conn)
       IN  /\ devlist' = r.devlist
           /\ general' = r.general
           /\ conn' = r.conn
           /\ pc' = [pc EXCEPT ![t] = CASE r.res = "true"  -> "discover"
                                        [] r.res = "false" -> "release"
                                        [] OTHER           -> "idle"]
           /\ result' = [result EXCEPT ![t] = IF r.res = "raised" THEN "raised" ELSE @]
    /\ runCfg' = [runCfg EXCEPT ![t] = <<Parameters, file>>]
    /\ UNCHANGED << linkVars, lifeVars, nodeVars, cfgVars, discovery_in, indexVars, n_queue, numNodes, hostVars,
                    walkVars, success, adds, dels, prevRun, mqVars, harnessVars >>

\* _discover up to the loop of _discover_nodes: the snapshot of the host's
\* nodes, nodes_old without the controller's id, `self.discovery_in = True`
DiscoverSnapshot(t) ==
    /\ pc[t] = "discover"
    /\ nodes_old' = [nodes_old EXCEPT ![t] = SelectSeq(nodes, LAMBDA n : n # CtrlId)]
    /\ nodes_new' = [nodes_new EXCEPT ![t] = <<>>]
    /\ discovery_in' = TRUE
    /\ walk' = [walk EXCEPT ![t] = devlist]
    /\ walkIdx' = [walkIdx EXCEPT ![t] = 1]
    /\ pc' = [pc EXCEPT ![t] = "walk"]
    /\ UNCHANGED << linkVars, lifeVars, nodeVars, cfgVars, resolverVars, indexVars, n_queue, numNodes, hostVars,
                    cleanIdx, runVars, mqVars, harnessVars >>

\* the dev dict is shared between the iterated list and self.devlist
ShareDev(dl, i, old, new) ==
    IF i <= Len(dl) /\ dl[i] = old THEN [dl EXCEPT ![i] = new] ELSE dl

\* one iteration of the loop of _discover_nodes, up to wait_for_node_done
DiscoverNode(t) ==
    /\ pc[t] = "walk"
    /\ LET i == walkIdx[t] IN
       IF i > Len(walk[t])
       THEN \* loop finished: on to _cleanup_nodes
            /\ pc' = [pc EXCEPT ![t] = "cleanup"]
            /\ cleanIdx' = [cleanIdx EXCEPT ![t] = 1]
            /\ UNCHANGED << devlist, indexVars, hostVars, walk, walkIdx, nodes_new, adds >>
       ELSE LET dev == walk[t][i]
                address == _format_device_address(dev) IN
            IF ~_validate_device_definition(dev)
            THEN \* invalid definition: continue
                 /\ walkIdx' = [walkIdx EXCEPT ![t] = i + 1]
                 /\ UNCHANGED << devlist, indexVars, hostVars, walk, nodes_new, adds, pc, cleanIdx >>
            ELSE IF NodeExists(nodes, address)
            THEN \* the node exists: nodes_new.append(address)
                 /\ nodes_new' = [nodes_new EXCEPT ![t] = Append(@, address)]
                 /\ walkIdx' = [walkIdx EXCEPT ![t] = i + 1]
                 /\ UNCHANGED << devlist, indexVars, hostVars, walk, adds, pc, cleanIdx >>
            ELSE IF dev["type"] \notin DeviceTypes
            THEN \* _create_device_node returns False: continue
                 /\ walkIdx' = [walkIdx EXCEPT ![t] = i + 1]
                 /\ UNCHANGED << devlist, indexVars, hostVars, walk, nodes_new, adds, pc, cleanIdx >>
            ELSE IF NormalizeRaises(dev["status_topic"]) \/ NormalizeRaises(dev["cmd_topic"])
            THEN \* AttributeError, caught by _discover: success stays False
                 /\ pc' = [pc EXCEPT ![t] = "release"]
                 /\ UNCHANGED << devlist, indexVars, hostVars, walk, walkIdx, nodes_new, adds, cleanIdx >>
            ELSE \* _create_device_node: normalise, bind the topics, poly.addNode
                 LET dev2 == DevAfterCreate(dev, conn)
                     topics == DeviceTopics(dev2, conn.status_prefix) IN
                 /\ Len(status_topics) + Len(topics) <= MaxSubs
                 /\ walk' = [walk EXCEPT ![t][i] = dev2]
                 /\ devlist' = ShareDev(devlist, i, dev, dev2)
                 /\ status_topics' = status_topics \o topics
                 /\ status_topics_to_devices' = BindTopics(status_topics_to_devices, topics, address)
                 /\ nodes' = Append(nodes, address)
                 /\ pendingAcks' = Append(pendingAcks, address)
                 /\ adds' = [adds EXCEPT ![t] = @ + 1]
                 /\ pc' = [pc EXCEPT ![t] = "wait"]
                 /\ UNCHANGED << walkIdx, nodes_new, cleanIdx >>
    /\ UNCHANGED << linkVars, lifeVars, nodeVars, cfgVars, general, conn, discovery_in, n_queue, numNodes, nodes_old,
                    success, result, runCfg, dels, prevRun, mqVars, harnessVars >>

\* wait_for_node_done: polls until n_queue is not empty, then n_queue.pop();
\* back in _discover_nodes, nodes_new.append(address)
WaitForNodeDone(t) ==
    /\ pc[t] = "wait"
    /\ n_queue # <<>>
    /\ n_queue' = SubSeq(n_queue, 1, Len(n_queue) - 1)
    /\ nodes_new' = [nodes_new EXCEPT ![t] = Append(@, _format_device_address(walk[t][walkIdx[t]]))]
    /\ walkIdx' = [walkIdx EXCEPT ![t] = @ + 1]
    /\ pc' = [pc EXCEPT ![t] = "walk"]
    /\ UNCHANGED << linkVars, lifeVars, nodeVars, cfgVars, resolverVars, discovery_in, indexVars, numNodes, hostVars,
                    walk, nodes_old, cleanIdx, runVars, mqVars, harnessVars >>

\* one iteration of the loop of _cleanup_nodes; after the loop, _discover sets
\* numNodes and success
CleanupNode(t) ==
    /\ pc[t] = "cleanup"
    /\ LET j == cleanIdx[t] IN
       IF j > Len(nodes_old[t])
       THEN /\ numNodes' = Len(nodes_new[t])
            /\ success' = [success EXCEPT ![t] = TRUE]
            /\ pc' = [pc EXCEPT ![t] = "release"]
            /\ UNCHANGED << discovery_in, indexVars, nodes, cleanIdx, dels >>
       ELSE LET node == nodes_old[t][j] IN
            IF InSeq(nodes_new[t], node)
            THEN /\ cleanIdx' = [cleanIdx EXCEPT ![t] = j + 1]
                 /\ UNCHANGED << discovery_in, indexVars, nodes, numNodes, success, dels, pc >>
            ELSE LET r == _remove_status_topics(status_topics_to_devices, status_topics, nodes, node) IN
                 /\ status_topics_to_devices' = r.index
                 /\ status_topics' = r.subs
                 /\ IF r.raised
                    THEN \* RuntimeError, caught by _discover: success stays False
                         /\ pc' = [pc EXCEPT ![t] = "release"]
                         /\ UNCHANGED << discovery_in, nodes, cleanIdx, dels >>
                    ELSE \* poly.delNode(node); self.discovery_in = False
                         /\ nodes' = SelectSeq(nodes, LAMBDA n : n # node)
                         /\ dels' = [dels EXCEPT ![t] = @ + 1]
                         /\ discovery_in' = FALSE
                         /\ cleanIdx' = [cleanIdx EXCEPT ![t] = j + 1]
                         /\ UNCHANGED pc
                 /\ UNCHANGED << numNodes, success >>
    /\ UNCHANGED << linkVars, lifeVars, nodeVars, cfgVars, resolverVars, n_queue, pendingAcks, walk, walkIdx, nodes_old,
                    nodes_new, result, runCfg, adds, prevRun, mqVars, harnessVars >>

\* discover_cmd: `self.discovery_in = False; return success`
DiscoverRelease(t) ==
    /\ pc[t] = "release"
    /\ discovery_in' = FALSE
    /\ result' = [result EXCEPT ![t] = IF success[t] THEN "true" ELSE "false"]
    /\ prevRun' = [valid |-> TRUE, cfg |-> runCfg[t], index |-> status_topics_to_devices,
                   subs |-> status_topics, nodes |-> nodes,
                   res |-> IF success[t] THEN "true" ELSE "false"]
    /\ pc' = [pc EXCEPT ![t] = "idle"]
    \* the locals of the invocation go out of scope
    /\ walk' = [walk EXCEPT ![t] = <<>>]
    /\ walkIdx' = [walkIdx EXCEPT ![t] = 1]
    /\ nodes_old' = [nodes_old EXCEPT ![t] = <<>>]
    /\ nodes_new' = [nodes_new EXCEPT ![t] = <<>>]
    /\ cleanIdx' = [cleanIdx EXCEPT ![t] = 1]
    /\ success' = [success EXCEPT ![t] = FALSE]
    /\ runCfg' = [runCfg EXCEPT ![t] = <<>>]
    /\ adds' = [adds EXCEPT ![t] = 0]
    /\ dels' = [dels EXCEPT ![t] = 0]
    /\ UNCHANGED << linkVars, lifeVars, nodeVars, cfgVars, resolverVars, indexVars, n_queue, numNodes, hostVars,
                    mqVars, harnessVars >>

-----------------------------------------------------------------------------
(* The host platform and the broker *)

\* node_queue(data): the host acknowledges an addNode request (ADDNODEDONE)
NodeQueue ==
    /\ pendingAcks # <<>>
    /\ n_queue' = IF Head(pendingAcks) # <<>> THEN Append(n_queue, Head(pendingAcks)) ELSE n_queue
    /\ pendingAcks' = Tail(pendingAcks)
    /\ UNCHANGED << linkVars, lifeVars, nodeVars, cfgVars, resolverVars, discovery_in, indexVars, numNodes, nodes, pc,
                    walkVars, runVars, mqVars, harnessVars >>

\* parameterHandler(params): the user saved new custom parameters
ParameterHandler(choices) ==
    /\ \E p \in choices : (p # Parameters \/ ~handler_st["params"]) /\ Parameters' = p
    /\ handler_st' = [handler_st EXCEPT !["params"] = TRUE]
    /\ UNCHANGED << linkVars, all_handlers_st_event, ready_event, ctrlST, Notices, hb, pollReported,
                    nodeVars, file, resolverVars, discovery_in, indexVars, n_queue, numNodes,
                    hostVars, pc, walkVars, runVars, mqVars, harnessVars >>

\* the devfile is edited on disk
EditDevfile(choices) ==
    /\ \E f \in choices : f # file /\ file' = f
    /\ UNCHANGED << linkVars, lifeVars, nodeVars, Parameters, resolverVars, discovery_in, indexVars, n_queue, numNodes,
                    hostVars, pc, walkVars, runVars, mqVars, harnessVars >>

\* _on_message: the guard `if self.discovery_in: return`, for a message drawn
\* from the given topics and payloads
OnMessageGuardIn(topics, payloads) ==
    /\ mqpc = "idle"
    /\ \E tp \in topics, pl \in payloads :
          /\ mqmsg' = IF discovery_in THEN <<>> ELSE [topic |-> tp, payload |-> pl]
          /\ mqpc' = IF discovery_in THEN "idle" ELSE "route"
          /\ lastDispatch' = <<>>
          /\ lastError' = {}
    /\ UNCHANGED << linkVars, lifeVars, nodeVars, cfgVars, resolverVars, discovery_in, indexVars, n_queue, numNodes,
                    hostVars, pc, walkVars, runVars, harnessVars >>

OnMessageGuard == OnMessageGuardIn(MainTopics, MainPayloads)

\* _dev_by_topic(topic): <<address>>, or <<>> for None
_dev_by_topic(index, topic) ==
    IF topic \in DOMAIN index THEN <<index[topic]>> ELSE <<>>

\* _route_message_to_device(topic, payload) without a sensor: the addresses
\* whose updateInfo is called; a missing node raises inside the try
_route_message_to_device(index, ns, topic) ==
    LET device_address == _dev_by_topic(index, topic)
    IN  IF device_address # <<>> /\ device_address[1] # <<>>
           /\ getNode(ns, device_address[1]) # None
        THEN device_address
        ELSE <<>>

\* _process_json_message: `'StatusSNS' in data` raises TypeError when the parsed
\* payload is an int or a bool
ProcessJsonRaises(payload) == payload.kind = "scalar"

\* a parsed JSON object: its members in document order
JObj(members) == [t |-> "obj", v |-> members]
Member(k, v) == [k |-> k, v |-> v]
HasKey(members, k) == \E i \in 1..Len(members) : members[i].k = k
ValueOf(members, k) == members[CHOOSE i \in 1..Len(members) : members[i].k = k].v

\* the parsed object of a JSON payload (none is written out for a payload
\* that carries no sensor keys)
PayloadData(payload) == IF "data" \in DOMAIN payload THEN payload.data ELSE JObj(<<>>)

\* Python `sub in s` for two strings
Contains(sub, s) == \E i \in 0..(Len(s) - Len(sub)) : SubSeq(s, i + 1, i + Len(sub)) = sub

\* str.split('/')
RECURSIVE Split(_)
Split(s) ==
    IF Positions(s, "/") = {} THEN <<s>>
    ELSE Append(Split(RSplitHead(s)), SubSeq(s, Max(Positions(s, "/")) + 1, Len(s)))

S_ANALOG == <<"A", "N", "A", "L", "O", "G">>
S_DS18B20 == <<"D", "S", "1", "8", "B", "2", "0">>
S_AM2301 == <<"A", "M", "2", "3", "0", "1">>
S_BME280 == <<"B", "M", "E", "2", "8", "0">>
S_StatusSNS == <<"S", "t", "a", "t", "u", "s", "S", "N", "S">>
\* the keys of SENSOR_PROCESSORS, in the order of the table
SENSOR_PROCESSORS == <<S_ANALOG, S_DS18B20, S_AM2301, S_BME280>>

\* _extract_sensors(data, sensor_type): the list handed to the router
_extract_sensors(data, sensor_type) ==
    IF sensor_type = S_ANALOG
    THEN IF ValueOf(data, sensor_type).t = "list" THEN ValueOf(data, sensor_type).v
         ELSE <<ValueOf(data, sensor_type)>>
    ELSE LET keys == [i \in 1..Len(data) |-> data[i].k]
         IN  SelectSeq([i \in 1..Len(keys) |-> PyStr(keys[i])],
                       LAMBDA key : Contains(sensor_type, key.v))

\* `if sensor:` for the values the router is handed
SensorTruthy(x) ==
    CASE x.t = "obj"  -> x.v # <<>>
      [] x.t = "list" -> x.v # <<>>
      [] OTHER        -> Truthy(x)

\* `topic_part in device['status_topic']`: a substring test on a string, a
\* membership test on a list
TopicPartIn(topic_part, status_topic) ==
    IF status_topic.t = "list"
    THEN \E i \in 1..Len(status_topic.v) : status_topic.v[i] = PyStr(topic_part)
    ELSE Contains(topic_part, status_topic.v)

\* the loop of _get_device_address_from_sensor_id over devlist[i..]:
\* [raised, addr] where addr is <<>> when no device matched
RECURSIVE SensorScan(_, _, _, _)
SensorScan(dl, i, topic_part, sensor_type) ==
    IF i > Len(dl) THEN [raised |-> FALSE, addr |-> <<>>]
    ELSE LET device == dl[i] IN
         IF "sensor_id" \notin DOMAIN device
         THEN SensorScan(dl, i + 1, topic_part, sensor_type)
         ELSE IF "status_topic" \notin DOMAIN device
         THEN [raised |-> TRUE, addr |-> <<>>]          \* KeyError
         ELSE IF ~TopicPartIn(topic_part, device["status_topic"])
         THEN SensorScan(dl, i + 1, topic_part, sensor_type)
         ELSE IF sensor_type.t # "str"
         THEN [raised |-> TRUE, addr |-> <<>>]          \* TypeError: `x in str` needs a string
         ELSE IF Contains(sensor_type.v, device["sensor_id"].v)
         THEN [raised |-> FALSE, addr |-> <<_format_device_address(device)>>]
         ELSE SensorScan(dl, i + 1, topic_part, sensor_type)

\* _get_device_address_from_sensor_id(topic, sensor_type): [raised, addr]
_get_device_address_from_sensor_id(dl, index, topic, sensor_type) ==
    IF Len(Split(topic)) < 2 THEN [raised |-> TRUE, addr |-> <<>>]      \* IndexError
    ELSE LET hit == SensorScan(dl, 1, Split(topic)[2], sensor_type)
         IN  IF hit.raised \/ hit.addr # <<>> THEN hit
             ELSE [raised |-> FALSE, addr |-> _dev_by_topic(index, topic)]

NoOutcome == [to |-> <<>>, err |-> {}]

\* _route_message_to_device(topic, payload, sensor) with sensor <<>> for None:
\* the addresses whose updateInfo is called and what the call logs; every
\* exception, that of a handler (the addresses in bad) included, ends in the
\* except clause of this call
RouteOutcome(dl, index, ns, topic, sensor, bad) ==
    LET lk == IF sensor # <<>> /\ SensorTruthy(sensor[1])
              THEN _get_device_address_from_sensor_id(dl, index, topic, sensor[1])
              ELSE [raised |-> FALSE, addr |-> _dev_by_topic(index, topic)]
    IN  IF lk.raised THEN [to |-> <<>>, err |-> {"lookup"}]
        ELSE IF lk.addr = <<>> \/ lk.addr[1] = <<>> THEN [to |-> <<>>, err |-> {"nodevice"}]
        ELSE IF getNode(ns, lk.addr[1]) = None THEN [to |-> <<>>, err |-> {"nonode"}]
        ELSE [to |-> lk.addr, err |-> IF lk.addr[1] \in bad THEN {"handler"} ELSE {}]

\* mutant: the first sensor whose routing fails ends the loop
RECURSIVE RouteSensors_StopAtError(_, _, _, _, _, _)
RouteSensors_StopAtError(dl, index, ns, topic, sensors, bad) ==
    IF sensors = <<>> THEN NoOutcome
    ELSE LET first == RouteOutcome(dl, index, ns, topic, <<Head(sensors)>>, bad)
             rest == RouteSensors_StopAtError(dl, index, ns, topic, Tail(sensors), bad)
         IN  IF first.err # {} THEN first
             ELSE [to |-> first.to \o rest.to, err |-> first.err \cup rest.err]

\* the loop of _process_sensor_data over the extracted sensors
RECURSIVE RouteSensors(_, _, _, _, _, _)
RouteSensors(dl, index, ns, topic, sensors, bad) ==
    IF sensors = <<>> THEN NoOutcome
    ELSE LET first == RouteOutcome(dl, index, ns, topic, <<Head(sensors)>>, bad)
             rest == RouteSensors(dl, index, ns, topic, Tail(sensors), bad)
         IN  [to |-> first.to \o rest.to, err |-> first.err \cup rest.err]

\* _process_sensor_data(topic, payload, data): <<>> for False, else <<outcome>>
\* of the first sensor type of the table that is a key of data
_process_sensor_data(dl, index, ns, topic, data, bad) ==
    LET present == SelectSeq(SENSOR_PROCESSORS, LAMBDA st : HasKey(data, st))
    IN  IF present = <<>> THEN <<>>
        ELSE <<RouteSensors(dl, index, ns, topic, _extract_sensors(data, Head(present)), bad)>>

\* _process_json_message(topic, payload, data) for a parsed object; `in` on an
\* int or a bool raises TypeError, which _on_message catches
_process_json_message(dl, index, ns, topic, parsed, bad) ==
    IF parsed.t # "obj" THEN [to |-> <<>>, err |-> {"json"}]
    ELSE LET data == IF HasKey(parsed.v, S_StatusSNS) THEN ValueOf(parsed.v, S_StatusSNS)
                     ELSE parsed
         IN  IF data.t # "obj" THEN [to |-> <<>>, err |-> {"json"}]
             ELSE LET sensed == _process_sensor_data(dl, index, ns, topic, data.v, bad)
                  IN  IF sensed # <<>> THEN sensed[1]
                      ELSE RouteOutcome(dl, index, ns, topic, <<>>, bad)

\* the try block of _on_message for one message
MessageOutcome(dl, index, ns, msg, bad) ==
    CASE msg.payload.kind = "text"   -> RouteOutcome(dl, index, ns, msg.topic, <<>>, bad)
      [] msg.payload.kind = "scalar" -> [to |-> <<>>, err |-> {"json"}]
      [] OTHER -> _process_json_message(dl, index, ns, msg.topic, PayloadData(msg.payload), bad)

\* _on_message after the guard: plain text and a JSON object without sensor
\* data are routed by the topic, sensor data by sensor; an exception of
\* _process_json_message is caught and logged, nothing is dispatched; the
\* updateInfo of the nodes in bad raises
OnMessageRoute ==
    /\ mqpc = "route"
    /\ \E bad \in SUBSET {nodes[i] : i \in 2..Len(nodes)} :
          LET out == MessageOutcome(devlist, status_topics_to_devices, nodes, mqmsg, bad)
          IN  /\ lastDispatch' = out.to
              /\ lastError' = out.err
    /\ mqpc' = "idle"
    /\ mqmsg' = <<>>
    /\ UNCHANGED << linkVars, lifeVars, nodeVars, cfgVars, resolverVars, discovery_in, indexVars, n_queue, numNodes,
                    hostVars, pc, walkVars, runVars, harnessVars >>

Discover(t) ==
    \/ DiscoverGuard(t)
    \/ DiscoverSetFlag(t)
    \/ DiscoverCheckParams(t)
    \/ DiscoverSnapshot(t)
    \/ DiscoverNode(t)
    \/ WaitForNodeDone(t)
    \/ CleanupNode(t)
    \/ DiscoverRelease(t)

\* one host thread invokes discover_cmd; the user edits the configuration
NextSeq ==
    \/ Discover("t1")
    \/ NodeQueue
    \/ ParameterHandler(MainParams)
    \/ EditDevfile(MainFiles)

SpecSeq == Init /\ [][NextSeq]_vars

\* DevA after the user moved it to another status topic
DevAMoved == [DevA EXCEPT !["status_topic"] = PyStr(<<"~", "/", "m", "/", "P">>)]
\* a second device whose id differs from DevA's by an underscore
DevAUnder == [id |-> <<"a", "_">>, type |-> "switch",
              status_topic |-> PyStr(<<"s", "/", "d">>),
              cmd_topic |-> PyStr(<<"c", "/", "d">>)]
\* devfiles that differ in the status topic of one device
MoveFiles == {FileA, YamlMap(<< <<DevAMoved>> >>, GeneralPrefix), FileAB}
\* device directories in which two ids derive the same address, and others
CollideFiles == {YamlMap(<< <<DevA, DevAUnder>> >>, GeneralPrefix),
                 YamlMap(<< <<DevAUnder, DevB>> >>, GeneralPrefix), FileB}

InitMove ==
    /\ InitController
    /\ NoUpsert
    /\ NoFnCall
    /\ Parameters = ParamsDevfile
    /\ file \in MoveFiles

NextMove ==
    \/ Discover("t1")
    \/ NodeQueue
    \/ EditDevfile(MoveFiles)

SpecMove == InitMove /\ [][NextMove]_vars

InitCollide ==
    /\ InitController
    /\ NoUpsert
    /\ NoFnCall
    /\ Parameters = ParamsDevfile
    /\ file \in CollideFiles

NextCollide ==
    \/ Discover("t1")
    \/ NodeQueue
    \/ EditDevfile(CollideFiles)

SpecCollide == InitCollide /\ [][NextCollide]_vars

\* the controller registered under either address
InitAddr ==
    /\ \E address \in RegisteredAddresses : InitControllerAt(address)
    /\ NoUpsert
    /\ NoFnCall
    /\ Parameters = ParamsDevfile
    /\ file \in RaceFiles

NextAddr ==
    \/ Discover("t1")
    \/ NodeQueue
    \/ EditDevfile(RaceFiles)

SpecAddr == InitAddr /\ [][NextAddr]_vars

\* configurations under which loading succeeds, reports failure, or raises
RunParams == {ParamsDevfile, NoParams, [NoParams EXCEPT !.devlist = Dict(DevC)]}
RunFiles == {FileAB, FileNull, FileNoDevices, YamlMap(<< <<DevB>> >>, GeneralMalformed)}

InitRun ==
    /\ InitController
    /\ NoUpsert
    /\ NoFnCall
    /\ Parameters \in RunParams
    /\ file \in RunFiles

NextRun ==
    \/ Discover("t1")
    \/ NodeQueue
    \/ EditDevfile(RunFiles)

\* the host thread that runs discover_cmd keeps running, and the host delivers
\* every ADDNODEDONE event
SpecRun == InitRun /\ [][NextRun]_vars /\ WF_vars(Discover("t1")) /\ WF_vars(NodeQueue)

InitRace ==
    /\ InitController
    /\ NoUpsert
    /\ NoFnCall
    /\ Parameters = ParamsDevfile
    /\ file \in RaceFiles

\* two host threads may invoke discover_cmd
Next ==
    \/ \E t \in Threads : Discover(t)
    \/ NodeQueue
    \/ EditDevfile(RaceFiles)

Spec == InitRace /\ [][Next]_vars

\* one host thread invokes discover_cmd while the MQTT thread delivers messages
NextMsg ==
    \/ Discover("t1")
    \/ NodeQueue
    \/ EditDevfile(RaceFiles)
    \/ OnMessageGuard
    \/ OnMessageRoute

SpecMsg == InitRace /\ [][NextMsg]_vars

InitTypes ==
    /\ InitController
    /\ NoUpsert
    /\ NoFnCall
    /\ Parameters = ParamsDevfile
    /\ file \in TypeFiles

\* one host thread invokes discover_cmd on a directory of several kinds of specs
NextTypes ==
    \/ Discover("t1")
    \/ NodeQueue

SpecTypes == InitTypes /\ [][NextTypes]_vars

-----------------------------------------------------------------------------
(* The router on directories of sensor devices *)

S_tdS == <<"t", "/", "d", "/", "S">>
S_td2S == <<"t", "/", "d", "2", "/", "S">>
S_A1 == <<"A", "1">>
S_A2 == <<"A", "2">>
S_DS1 == S_DS18B20 \o <<"-", "1">>
S_DS2 == S_DS18B20 \o <<"-", "2">>

\* an analog device without sensor_id, and the two channels of a
\* multi-channel analog device
DevAn == [id |-> <<"n">>, type |-> "analog", status_topic |-> PyStr(S_tdS),
          cmd_topic |-> PyStr(<<"c", "/", "d">>)]
DevAn1 == [id |-> <<"n", "1">>, type |-> "analog", status_topic |-> PyStr(S_tdS),
           cmd_topic |-> PyStr(<<"c", "/", "d">>), sensor_id |-> PyStr(S_A1)]
DevAn2 == [id |-> <<"n", "2">>, type |-> "analog", status_topic |-> PyStr(S_tdS),
           cmd_topic |-> PyStr(<<"c", "/", "d">>), sensor_id |-> PyStr(S_A2)]
\* two DS18B20 probes of one Tasmota device, a probe of another device whose
\* name starts with the name of the first, and a probe spec without cmd_topic
DevT1 == [id |-> <<"p", "1">>, type |-> "Temp", status_topic |-> PyStr(S_tdS),
          cmd_topic |-> PyStr(<<"c", "/", "d">>), sensor_id |-> PyStr(S_DS1)]
DevT2 == [id |-> <<"p", "2">>, type |-> "Temp", status_topic |-> PyStr(S_tdS),
          cmd_topic |-> PyStr(<<"c", "/", "d">>), sensor_id |-> PyStr(S_DS2)]
DevT0 == [id |-> <<"p", "0">>, type |-> "Temp", status_topic |-> PyStr(S_tdS),
          cmd_topic |-> PyStr(<<"c", "/", "d">>), sensor_id |-> PyStr(S_DS18B20)]
DevT2Far == [id |-> <<"p", "2">>, type |-> "Temp", status_topic |-> PyStr(S_td2S),
             cmd_topic |-> PyStr(<<"c", "/", "d", "2">>), sensor_id |-> PyStr(S_DS2)]
DevT1NoCmd == [id |-> <<"p", "1">>, type |-> "Temp", status_topic |-> PyStr(S_tdS),
               sensor_id |-> PyStr(S_DS1)]
DevSw == [id |-> <<"w">>, type |-> "switch", status_topic |-> PyStr(S_tdS),
          cmd_topic |-> PyStr(<<"c", "/", "d">>)]

SensorFiles ==
    {YamlMap(<< dl >>, GeneralPrefix) :
        dl \in {<<DevAn>>, <<DevAn1, DevAn2>>, <<DevAn2>>, <<DevT1, DevT2>>,
                <<DevT0, DevT2>>, <<DevSw, DevT2Far>>, <<DevT1NoCmd, DevSw>>}}

SomeReading == JObj(<< Member(<<"T">>, PyInt(21)) >>)
\* {"ANALOG": {"A1": 42}}
P_Analog1 == [kind |-> "json",
              data |-> JObj(<< Member(S_ANALOG, JObj(<< Member(S_A1, PyInt(42)) >>)) >>)]
\* {"ANALOG": {"A1": 42, "A2": 7}}
P_Analog2 == [kind |-> "json",
              data |-> JObj(<< Member(S_ANALOG, JObj(<< Member(S_A1, PyInt(42)),
                                                        Member(S_A2, PyInt(7)) >>)) >>)]
\* {"StatusSNS": {"ANALOG": {"A1": 42}}}
P_StatusSNS == [kind |-> "json", data |-> JObj(<< Member(S_StatusSNS, P_Analog1.data) >>)]
\* {"DS18B20-1": {...}, "DS18B20-2": {...}}
P_DsMulti == [kind |-> "json",
              data |-> JObj(<< Member(S_DS1, SomeReading), Member(S_DS2, SomeReading) >>)]
\* {"DS18B20": {...}}
P_Ds == [kind |-> "json", data |-> JObj(<< Member(S_DS18B20, SomeReading) >>)]
\* {"DS18B20": {...}, "DS18B20-2": {...}}
P_DsMixed == [kind |-> "json",
              data |-> JObj(<< Member(S_DS18B20, SomeReading), Member(S_DS2, SomeReading) >>)]

SensorTopics == {S_tdS, <<"x">>}
SensorPayloads == {[kind |-> "text"], P_Analog1, P_Analog2, P_StatusSNS, P_DsMulti, P_Ds,
                   P_DsMixed}

InitSensor ==
    /\ InitController
    /\ NoUpsert
    /\ NoFnCall
    /\ Parameters = ParamsDevfile
    /\ file \in SensorFiles

OnSensorMessage == OnMessageGuardIn(SensorTopics, SensorPayloads)

\* one host thread invokes discover_cmd on a directory of sensor devices; the
\* broker delivers sensor messages
NextSensor ==
    \/ Discover("t1")
    \/ NodeQueue
    \/ OnSensorMessage
    \/ OnMessageRoute

SpecSensor == InitSensor /\ [][NextSensor]_vars

-----------------------------------------------------------------------------
(* Start-up and the connection to the broker *)

\* mqtt_subscribe(): every topic of self.status_topics is subscribed on the
\* current connection
mqtt_subscribe(subs, topics) == subs \cup {topics[i] : i \in 1..Len(topics)}

\* the part of the state start-up and the link leave to reconciliation
restVars == << nodeVars, cfgVars, resolverVars, discovery_in, indexVars, n_queue, numNodes,
               hostVars, pc, walkVars, runVars, mqVars, harnessVars >>

\* check_handlers()
check_handlers(st, ev) == ev \/ \A h \in Handlers : st[h]

\* dataHandler, typedParameterHandler and typedDataHandler: the handler sets
\* its flag and calls check_handlers()
FlagHandler(h) ==
    /\ handler_st' = [handler_st EXCEPT ![h] = TRUE]
    /\ all_handlers_st_event' = check_handlers(handler_st', all_handlers_st_event)
    /\ UNCHANGED << linkVars, ready_event, ctrlST, Notices, hb, pollReported, restVars >>

DataHandler == FlagHandler("data")
TypedParameterHandler == FlagHandler("typedparams")
TypedDataHandler == FlagHandler("typeddata")

\* heartbeat(): the command reported for the current value of hb
HeartbeatCmd(h) == IF h THEN "DOF" ELSE "DON"

\* bool(self.ready_event): threading.Event defines neither __bool__ nor
\* __len__, so the object is true whether or not the event is set
EventObjectTruthy(ev) == TRUE

PollFlags == {"shortPoll", "longPoll"}

\* poll(flag)
Poll ==
    /\ \E flag \in PollFlags :
          IF ~EventObjectTruthy(ready_event)
          THEN pollReported' = <<>> /\ hb' = hb
          ELSE IF flag = "shortPoll"
               THEN pollReported' = <<HeartbeatCmd(hb)>> /\ hb' = ~hb
               ELSE pollReported' = <<>> /\ hb' = hb
    /\ UNCHANGED << linkVars, handlerVars, ready_event, ctrlST, Notices, restVars >>

\* start() up to the wait for the handlers: the notices are cleared, 'hello'
\* and 'waiting' are posted, ST is set to 1 and a heartbeat is sent
StartBegin ==
    /\ startpc = "idle"
    /\ startpc' = "handlers"
    /\ Notices' = {"hello", "waiting"}
    /\ ctrlST' = 1
    /\ hb' = ~hb
    /\ UNCHANGED << broker, mqttc, subscribed, handlerVars, ready_event, pollReported, restVars >>

\* start(): all_handlers_st_event.wait(timeout=60) returns; when the event is
\* not set, start-up has failed
StartWait ==
    /\ startpc = "handlers"
    /\ IF all_handlers_st_event
       THEN /\ startpc' = "discover"
            /\ UNCHANGED << ctrlST, Notices >>
       ELSE /\ startpc' = "failed_handlers"
            /\ ctrlST' = 2
            /\ Notices' = Notices \cup {"error"}
    /\ UNCHANGED << broker, mqttc, subscribed, handlerVars, ready_event, hb, pollReported, restVars >>

\* the run of discover_cmd that start() makes, and the runs the host's DISCOVER
\* command makes once start() has returned
StartDiscover ==
    /\ \/ startpc = "discover" /\ ~(pc["t1"] = "idle" /\ result["t1"] \in {"true", "false", "raised"})
       \/ startpc = "done"
    /\ Discover("t1")

\* start(): `if not discoverSuccess: ... return`; an exception of discover_cmd
\* leaves start() at once
StartAfterDiscover ==
    /\ startpc = "discover"
    /\ pc["t1"] = "idle" /\ result["t1"] \in {"true", "false", "raised"}
    /\ CASE result["t1"] = "true"  -> startpc' = "mqtt" /\ UNCHANGED << ctrlST, Notices >>
         [] result["t1"] = "false" -> /\ startpc' = "failed"
                                      /\ Notices' = Notices \cup {"error"}
                                      /\ ctrlST' = 2
         [] OTHER                  -> startpc' = "raised" /\ UNCHANGED << ctrlST, Notices >>
    /\ UNCHANGED << broker, mqttc, subscribed, handlerVars, ready_event, hb, pollReported, restVars >>

\* _mqtt_start(): mqttc.connect() and loop_start(); connect() raises when the
\* broker cannot be reached, _mqtt_start returns False and start() gives up
MqttStartConnect ==
    /\ startpc = "mqtt"
    /\ IF broker = "up"
       THEN /\ mqttc' = "connecting" /\ startpc' = "waiting"
            /\ Notices' = Notices \cup {"mqtt"}
            /\ UNCHANGED ctrlST
       ELSE /\ mqttc' = "none" /\ startpc' = "failed_mqtt"
            /\ Notices' = Notices \cup {"mqtt", "error"}
            /\ ctrlST' = 2
    /\ UNCHANGED << broker, subscribed, handlerVars, ready_event, hb, pollReported, restVars >>

\* _mqtt_start(): the loop `while not self.mqttc.is_connected()` ends, the
\* notices are cleared, mqtt_subscribe() is called, and start() sets ready_event
MqttStartDone ==
    /\ startpc = "waiting"
    /\ mqttc = "connected"
    /\ subscribed' = mqtt_subscribe(subscribed, status_topics)
    /\ Notices' = {}
    /\ ready_event' = TRUE
    /\ startpc' = "done"
    /\ UNCHANGED << broker, mqttc, handlerVars, ctrlST, hb, pollReported, restVars >>

\* _on_connect(rc = 0) on the network thread: mqtt_subscribe()
OnConnect ==
    /\ mqttc = "connecting"
    /\ broker = "up"
    /\ mqttc' = "connected"
    /\ subscribed' = mqtt_subscribe(subscribed, status_topics)
    /\ UNCHANGED << broker, startpc, lifeVars, restVars >>

\* _on_disconnect(rc # 0): the connection and its subscriptions are gone;
\* mqttc.reconnect() opens a new one when the broker can be reached
OnDisconnect ==
    /\ mqttc = "connected"
    /\ mqttc' = IF broker = "up" THEN "connecting" ELSE "lost"
    /\ subscribed' = {}
    /\ UNCHANGED << broker, startpc, lifeVars, restVars >>

\* the network loop of the client retries a lost connection
Reconnect ==
    /\ mqttc = "lost"
    /\ broker = "up"
    /\ mqttc' = "connecting"
    /\ UNCHANGED << broker, subscribed, startpc, lifeVars, restVars >>

\* the broker becomes unreachable, or reachable again
BrokerToggle ==
    /\ broker' = IF broker = "up" THEN "down" ELSE "up"
    /\ UNCHANGED << mqttc, subscribed, startpc, lifeVars, restVars >>

\* the events the host delivers at start-up, in any order
StartupHandlers(params) ==
    \/ ParameterHandler(params)
    \/ DataHandler
    \/ TypedParameterHandler
    \/ TypedDataHandler

\* start-up, the connection to the broker, DISCOVER commands after start-up and
\* edits of the devfile
NextLink ==
    \/ StartupHandlers({ParamsDevfile})
    \/ StartBegin
    \/ StartWait
    \/ StartDiscover
    \/ StartAfterDiscover
    \/ MqttStartConnect
    \/ MqttStartDone
    \/ OnConnect
    \/ OnDisconnect
    \/ Reconnect
    \/ BrokerToggle
    \/ NodeQueue
    \/ EditDevfile(RaceFiles)

SpecLink == InitRace /\ [][NextLink]_vars

\* devfiles with which the first discovery succeeds, reports failure, or raises
StartFiles == {FileA, FileNoDevices, YamlMap(<< <<DevB>> >>, GeneralMalformed)}

InitStart ==
    /\ InitController
    /\ NoUpsert
    /\ NoFnCall
    /\ Parameters = ParamsDevfile
    /\ file \in StartFiles

\* start-up from the first event on, with the host's poll events
NextStart ==
    \/ StartupHandlers({ParamsDevfile})
    \/ Poll
    \/ StartBegin
    \/ StartWait
    \/ StartDiscover
    \/ StartAfterDiscover
    \/ MqttStartConnect
    \/ MqttStartDone
    \/ OnConnect
    \/ OnDisconnect
    \/ Reconnect
    \/ BrokerToggle
    \/ NodeQueue

SpecStart == InitStart /\ [][NextStart]_vars

-----------------------------------------------------------------------------
(* The device handlers MQSwitch and MQDimmer *)

\* MQSwitch.py: driver values
SwOFF == 0
SwON == 100
SwUNKNOWN == 101
\* MQDimmer.py: OFF, FULL, INC
OFF == 0
FULL == 100
INC == 10

S_ON == <<"O", "N">>
S_OFF == <<"O", "F", "F">>

dimVars == << dimmer, dimOp, dimReported, dimPublished, dimAsked >>
swVars == << on_state, swST, swReported, swPublished >>
ctrlVars == << linkVars, lifeVars, cfgVars, resolverVars, discovery_in, indexVars, n_queue, numNodes,
               hostVars, pc, walkVars, runVars, mqVars, harnessVars >>

\* str.upper()
UpperChar(c) ==
    IF \E i \in 1..26 : LowerOf[i] = c
    THEN Upper[CHOOSE i \in 1..26 : LowerOf[i] = c]
    ELSE c
UpperStr(s) == [i \in 1..Len(s) |-> UpperChar(s[i])]

\* status payloads an MQSwitch receives
SwitchPayloads == {S_ON, <<"o", "n">>, S_OFF, <<"O", "f", "f">>, <<"x">>, <<>>}

\* mutant: every ON status is reported, whatever the stored state
SwitchUpdateInfo_AlwaysReport ==
    /\ \E payload \in SwitchPayloads :
          IF UpperStr(payload) = S_ON
          THEN /\ swST' = SwON
               /\ Len(swReported) < MaxReports
               /\ swReported' = Append(swReported, "DON")
               /\ on_state' = TRUE
          ELSE IF UpperStr(payload) = S_OFF
          THEN /\ swST' = SwOFF
               /\ on_state' = FALSE
               /\ IF on_state
                  THEN /\ Len(swReported) < MaxReports
                       /\ swReported' = Append(swReported, "DOF")
                  ELSE UNCHANGED swReported
          ELSE /\ swST' = SwUNKNOWN
               /\ UNCHANGED << swReported, on_state >>
    /\ UNCHANGED << swPublished, dimVars, ctrlVars >>

\* MQSwitch.updateInfo(payload, topic)
SwitchUpdateInfo ==
    /\ \E payload \in SwitchPayloads :
          LET payload_upper == UpperStr(payload) IN
          IF payload_upper = S_ON
          THEN /\ swST' = SwON
               /\ IF ~on_state
                  THEN /\ Len(swReported) < MaxReports
                       /\ swReported' = Append(swReported, "DON")
                       /\ on_state' = TRUE
                  ELSE UNCHANGED << swReported, on_state >>
          ELSE IF payload_upper = S_OFF
          THEN /\ swST' = SwOFF
               /\ IF on_state
                  THEN /\ Len(swReported) < MaxReports
                       /\ swReported' = Append(swReported, "DOF")
                       /\ on_state' = FALSE
                  ELSE UNCHANGED << swReported, on_state >>
          ELSE /\ swST' = SwUNKNOWN
               /\ UNCHANGED << swReported, on_state >>
    /\ UNCHANGED << swPublished, dimVars, ctrlVars >>

\* MQSwitch.cmd_on(command): DON from the host
SwitchCmdOn ==
    /\ swPublished' = <<"ON">>
    /\ UNCHANGED << on_state, swST, swReported, dimVars, ctrlVars >>

\* MQSwitch.cmd_off(command): DOF from the host
SwitchCmdOff ==
    /\ swPublished' = <<"OFF">>
    /\ UNCHANGED << on_state, swST, swReported, dimVars, ctrlVars >>

\* a JSON number with a fraction, in tenths
PyFloat(tenths) == [t |-> "float", v |-> tenths]

\* int(x): [ok, v]; ValueError and TypeError give ok = FALSE
PyToInt(x) ==
    CASE x.t = "int"   -> [ok |-> TRUE, v |-> x.v]
      [] x.t = "float" -> [ok |-> TRUE, v |-> IF x.v >= 0 THEN x.v \div 10 ELSE -((-x.v) \div 10)]
      [] x.t = "str"   -> IF IsDigit(x.v) THEN [ok |-> TRUE, v |-> ToInt(x.v)]
                          ELSE [ok |-> FALSE, v |-> 0]
      [] OTHER         -> [ok |-> FALSE, v |-> 0]

Min(a, b) == IF a < b THEN a ELSE b
Max2(a, b) == IF a > b THEN a ELSE b

\* mutant: the level is stored as it is asked for
Clamp_None(level) == level

\* _set_dimmer_level: max(OFF, min(FULL, level))
Clamp(level) == Max2(OFF, Min(FULL, level))

\* status payloads an MQDimmer receives: text that is not JSON, JSON that is
\* not an object, and objects with and without POWER and Dimmer
DimmerLevels == {None, PyInt(0), PyInt(50), PyInt(100), PyInt(150), PyInt(-5),
                 PyStr(<<"3", "0">>), PyStr(<<"a">>), PyFloat(507), PyList(<<>>)}
DimmerPayloads ==
    {[kind |-> "notjson"], [kind |-> "nondict"]} \cup
    {[kind |-> "obj", POWER |-> p, Dimmer |-> d] : p \in {"none", "ON", "OFF", "on"},
                                                   d \in DimmerLevels}

\* the command MQDimmer.updateInfo reports for a change from level to target
UpdateCmd(level, target) ==
    IF level = OFF /\ target > OFF THEN <<"DON">>
    ELSE IF level > OFF /\ target = OFF THEN <<"DOF">>
    ELSE IF level > OFF /\ target > level THEN <<"BRT">>
    ELSE IF level > OFF /\ target < level THEN <<"DIM">>
    ELSE <<>>

\* the target level of MQDimmer.updateInfo: <<>> for None
TargetLevel(level, power, new_dimmer) ==
    IF power = "ON" THEN (IF new_dimmer # <<>> THEN new_dimmer
                          ELSE IF level > OFF THEN <<level>> ELSE <<FULL>>)
    ELSE IF power = "OFF" THEN <<OFF>>
    ELSE new_dimmer

\* MQDimmer.updateInfo(payload, topic)
DimmerUpdateInfo ==
    /\ \E payload \in DimmerPayloads :
          LET parsed == payload.kind = "obj" /\ (payload.Dimmer = None \/ PyToInt(payload.Dimmer).ok)
              new_dimmer == IF payload.Dimmer = None THEN <<>> ELSE <<PyToInt(payload.Dimmer).v>>
              target == TargetLevel(dimmer, payload.POWER, new_dimmer)
          IN  IF ~parsed \/ target = <<>> \/ target[1] = dimmer
              THEN \* decode error, AttributeError, ValueError, TypeError, or nothing to do
                   /\ dimReported' = <<>>
                   /\ dimAsked' = <<>>
                   /\ UNCHANGED dimmer
              ELSE /\ dimReported' = UpdateCmd(dimmer, target[1])
                   /\ dimAsked' = target
                   /\ dimmer' = Clamp(target[1])
    /\ dimOp' = "update"
    /\ dimPublished' = <<>>
    /\ UNCHANGED << swVars, ctrlVars >>

\* the `value` a DON command of the host carries
CommandValues == {Absent, PyInt(0), PyInt(5), PyInt(30), PyInt(150), PyInt(-5), PyStr(<<"a">>)}

\* MQDimmer.on_cmd(command)
DimmerOnCmd ==
    /\ \E value \in CommandValues :
          LET asked == IF value = Absent THEN dimmer
                       ELSE IF PyToInt(value).ok THEN PyToInt(value).v ELSE dimmer
              level == IF asked = OFF THEN INC ELSE asked
          IN  /\ dimAsked' = <<level>>
              /\ dimmer' = Clamp(level)
              /\ dimPublished' = <<Clamp(level)>>
    /\ dimOp' = "on"
    /\ dimReported' = <<>>
    /\ UNCHANGED << swVars, ctrlVars >>

\* MQDimmer.off_cmd(command)
DimmerOffCmd ==
    /\ dimAsked' = <<OFF>>
    /\ dimmer' = Clamp(OFF)
    /\ dimPublished' = <<Clamp(OFF)>>
    /\ dimOp' = "off"
    /\ dimReported' = <<>>
    /\ UNCHANGED << swVars, ctrlVars >>

\* MQDimmer.brt_cmd(command)
DimmerBrtCmd ==
    /\ dimAsked' = <<Min(dimmer + INC, FULL)>>
    /\ dimmer' = Clamp(Min(dimmer + INC, FULL))
    /\ dimPublished' = <<Clamp(Min(dimmer + INC, FULL))>>
    /\ dimOp' = "brt"
    /\ dimReported' = <<>>
    /\ UNCHANGED << swVars, ctrlVars >>

\* MQDimmer.dim_cmd(command)
DimmerDimCmd ==
    /\ dimAsked' = <<Max2(dimmer - INC, OFF)>>
    /\ dimmer' = Clamp(Max2(dimmer - INC, OFF))
    /\ dimPublished' = <<Clamp(Max2(dimmer - INC, OFF))>>
    /\ dimOp' = "dim"
    /\ dimReported' = <<>>
    /\ UNCHANGED << swVars, ctrlVars >>

\* status messages and host commands reach one MQSwitch and one MQDimmer
NextNode ==
    \/ SwitchUpdateInfo
    \/ SwitchCmdOn
    \/ SwitchCmdOff
    \/ DimmerUpdateInfo
    \/ DimmerOnCmd
    \/ DimmerOffCmd
    \/ DimmerBrtCmd
    \/ DimmerDimCmd

InitNode ==
    /\ InitController
    /\ NoUpsert
    /\ NoFnCall
    /\ Parameters = NoParams
    /\ file = FileAB

SpecNode == InitNode /\ [][NextNode]_vars

-----------------------------------------------------------------------------
(* Configuration resolution on its own *)

\* checkParams() called directly
CheckParamsCall ==
    /\ LET r == checkParams(Parameters, file, devlist, general, conn)
       IN  /\ devlist' = r.devlist
           /\ general' = r.general
           /\ conn' = r.conn
           /\ cpRes' = [n |-> ~cpRes.n, res |-> r.res]
    /\ UNCHANGED << linkVars, lifeVars, nodeVars, cfgVars, discovery_in, indexVars, n_queue, numNodes, hostVars, pc,
                    walkVars, runVars, mqVars, uList, uEntry, uOut, uDone, fnIn, fnOut >>

InitCfg ==
    /\ InitController
    /\ NoUpsert
    /\ NoFnCall
    /\ Parameters \in CfgParams
    /\ file \in CfgFiles

NextCfg ==
    \/ CheckParamsCall
    \/ ParameterHandler(CfgParams)
    \/ EditDevfile(CfgFiles)

SpecCfg == InitCfg /\ [][NextCfg]_vars

-----------------------------------------------------------------------------
(* upsert_by_id on its own *)

InitUpsert ==
    /\ InitController
    /\ Parameters = NoParams
    /\ file = FileAB
    /\ uList \in SeqsUpTo(UpsertEntries, MaxUpsertLen)
    /\ uEntry \in UpsertEntries
    /\ uOut = <<>>
    /\ uDone = FALSE
    /\ NoFnCall

UpsertCall ==
    /\ ~uDone
    /\ uOut' = upsert_by_id(uList, uEntry)
    /\ uDone' = TRUE
    /\ UNCHANGED << linkVars, lifeVars, nodeVars, cfgVars, resolverVars, discovery_in, indexVars, n_queue, numNodes,
                    hostVars, pc, walkVars, runVars, mqVars, cpRes, uList, uEntry,
                    fnIn, fnOut >>

NextUpsert == UpsertCall

SpecUpsert == InitUpsert /\ [][NextUpsert]_vars

-----------------------------------------------------------------------------
(* The address and topic helpers on their own *)

\* characters of the generated ids: an upper-case and a lower-case letter, a
\* digit, the underscore, the hyphen and a character getValidAddress removes
IdChars == {"K", "a", "1", "_", "-", "/"}

S_KitchenUnderscore == <<"K", "i", "t", "c", "h", "e", "n", "_", "L", "i", "g", "h", "t">>
S_KitchenHyphen == <<"K", "i", "t", "c", "h", "e", "n", "-", "L", "i", "g", "h", "t">>
\* thirteen characters, so that a tail crosses the length limit of the address
S_LongStem == <<"L", "i", "v", "i", "n", "g", "R", "o", "o", "m", "F", "a", "n">>

ShortIds == SeqsUpTo(IdChars, MaxIdLen)

AddressIds ==
    ShortIds \cup {S_LongStem \o tl : tl \in ShortIds}
             \cup {S_KitchenUnderscore, S_KitchenHyphen}

\* device specs that differ in more than the id
AddressDevs ==
    {[id |-> i, type |-> ty, status_topic |-> PyStr(<<"s">>), cmd_topic |-> PyStr(<<"c">>)] :
        i \in AddressIds, ty \in {"switch", "dimmer"}}

S_telexSENSOR == <<"t", "e", "l", "e", "/", "x", "/", "S", "E", "N", "S", "O", "R">>
S_statxPOWER == <<"s", "t", "a", "t", "/", "x", "/", "P", "O", "W", "E", "R">>
S_tildexPOWER == <<"~", "/", "x", "/", "P", "O", "W", "E", "R">>
S_POWER == <<"P", "O", "W", "E", "R">>
S_stat == <<"s", "t", "a", "t">>
S_tildep == <<"~", "/", "p">>

\* topics and prefixes handed to _normalize_topic
NormalizeTopics ==
    {None, PyStr(<<>>), PyStr(<<"~">>), PyStr(S_tildep), PyStr(<<"p">>), PyStr(<<"p", "~">>),
     PyStr(<<"~", "~", "/", "p">>), PyStr(S_tildexPOWER), PyStr(S_statxPOWER)}
NormalizePrefixes == {None, PyStr(<<>>), PyStr(STATUS_TOPIC_PREFIX), PyStr(S_stat), PyStr(<<"~">>)}

\* device specs handed to _create_device_node for their topics
TopicDevs ==
    {[id |-> <<"x">>, type |-> ty, status_topic |-> PyStr(st), cmd_topic |-> PyStr(<<"c">>)] :
        ty \in {"switch", "dimmer", "TempHumid", "Temp", "TempHumidPress", "analog"},
        st \in {S_telexSENSOR, S_statxPOWER, S_tildexPOWER, S_POWER}}
TopicPrefixes == {None, PyStr(S_stat)}

\* _format_device_address(dev) called on its own
AddressCall ==
    /\ fnIn.fn = "address" /\ fnOut = <<>>
    /\ fnOut' = <<_format_device_address(fnIn.dev)>>
    /\ UNCHANGED << linkVars, lifeVars, nodeVars, cfgVars, resolverVars, discovery_in, indexVars, n_queue, numNodes,
                    hostVars, pc, walkVars, runVars, mqVars, cpRes, uList, uEntry, uOut,
                    uDone, fnIn >>

\* _normalize_topic(topic, prefix) called on its own
NormalizeCall ==
    /\ fnIn.fn = "normalize" /\ fnOut = <<>>
    /\ fnOut' = <<_normalize_topic(fnIn.topic, fnIn.prefix)>>
    /\ UNCHANGED << linkVars, lifeVars, nodeVars, cfgVars, resolverVars, discovery_in, indexVars, n_queue, numNodes,
                    hostVars, pc, walkVars, runVars, mqVars, cpRes, uList, uEntry, uOut,
                    uDone, fnIn >>

\* the topic part of _create_device_node on an empty index: the topics are
\* normalised and _add_device_status_topics binds them to the address
CreateTopicsCall ==
    /\ fnIn.fn = "topics" /\ fnOut = <<>>
    /\ LET cn == [status_prefix |-> fnIn.prefix, cmd_prefix |-> None]
           dev2 == DevAfterCreate(fnIn.dev, cn)
           topics == DeviceTopics(dev2, cn.status_prefix)
       IN  fnOut' = <<[subs  |-> topics,
                       index |-> BindTopics(<<>>, topics, _format_device_address(dev2))]>>
    /\ UNCHANGED << linkVars, lifeVars, nodeVars, cfgVars, resolverVars, discovery_in, indexVars, n_queue, numNodes,
                    hostVars, pc, walkVars, runVars, mqVars, cpRes, uList, uEntry, uOut,
                    uDone, fnIn >>

InitFn ==
    /\ InitController
    /\ NoUpsert
    /\ Parameters = NoParams
    /\ file = FileAB
    /\ fnIn \in {[fn |-> "address", dev |-> d] : d \in AddressDevs}
           \cup {[fn |-> "normalize", topic |-> tp, prefix |-> pf] :
                    tp \in NormalizeTopics, pf \in NormalizePrefixes}
           \cup {[fn |-> "topics", dev |-> d, prefix |-> pf] : d \in TopicDevs, pf \in TopicPrefixes}
    /\ fnOut = <<>>

NextFn ==
    \/ AddressCall
    \/ NormalizeCall
    \/ CreateTopicsCall

SpecFn == InitFn /\ [][NextFn]_vars

-----------------------------------------------------------------------------
(* Claims *)

\* the invocation of t has set the re-entrancy flag and has not yet returned
InRun(t) == pc[t] \notin {"idle", "set"}

\* C1: while a run of discover_cmd is in progress, another invocation returns
\* failure at once: it does not pass the guard, so it neither reloads the
\* configuration nor touches the topic index, the directory or the node set
C1_RejectWhileRunning ==
    [][\A t \in Threads :
          (pc[t] = "idle" /\ \E u \in Threads \ {t} : InRun(u)) => pc'[t] = "idle"]_vars

\* C2: an _on_message call made while a run of discover_cmd is in progress
\* returns at its guard without routing
C2_DropWhileRunning ==
    [][(mqpc = "idle" /\ \E t \in Threads : InRun(t)) => mqpc' = "idle"]_vars

\* the addresses _cleanup_nodes found stale in the run of t
Stale(t) == {nodes_old[t][j] : j \in {k \in 1..Len(nodes_old[t]) : ~InSeq(nodes_new[t], nodes_old[t][k])}}

BoundTo(index, address) == {tp \in DOMAIN index : index[tp] = address}

\* C3: when a successful run ends, no topic is bound any more to a device that
\* had a node and is absent from the configuration, its node is removed, and
\* the bindings the previous run left for the other devices are intact
C3_StaleUnbound ==
    \A t \in Threads :
        (pc[t] = "release" /\ success[t]) =>
            /\ \A a \in Stale(t) : BoundTo(status_topics_to_devices, a) = {} /\ ~InSeq(nodes, a)
            /\ prevRun.valid =>
                  \A tp \in DOMAIN prevRun.index :
                      prevRun.index[tp] \notin Stale(t) =>
                          /\ tp \in DOMAIN status_topics_to_devices
                          /\ status_topics_to_devices[tp] = prevRun.index[tp]

\* C4: a run that ends with the configuration of the previous run leaves the
\* topic index, the subscription list and the host's nodes as that run left
\* them and has requested no node creation and no node removal
C4_Idempotent ==
    \A t \in Threads :
        (pc[t] = "release" /\ prevRun.valid /\ prevRun.cfg = runCfg[t]) =>
            /\ status_topics_to_devices = prevRun.index
            /\ status_topics = prevRun.subs
            /\ nodes = prevRun.nodes
            /\ adds[t] = 0
            /\ dels[t] = 0

C4_Witness ==
    \E t \in Threads :
        /\ pc[t] = "release" /\ success[t]
        /\ prevRun.valid /\ prevRun.res = "true" /\ prevRun.cfg = runCfg[t]
        /\ Len(nodes_new[t]) = 2
        /\ Len(status_topics) >= 3

\* C5: the walk records a device as done only when the host has acknowledged
\* the creation of that very device
C5_AckBeforeProceeding ==
    \A t \in Threads :
        \A i \in 1..Len(nodes_new[t]) : ~InSeq(pendingAcks, nodes_new[t][i])

\* a devlist parameter that holds a JSON object or an object
ValidDevlist(P) ==
    \/ P.devlist.t = "dict"
    \/ P.devlist.t = "jsonstr" /\ P.devlist.ok /\ P.devlist.v.t = "dict"

DevlistEntry(P) == IF P.devlist.t = "jsonstr" THEN P.devlist.v.v ELSE P.devlist.v

ValidDevfile(P, F) ==
    Truthy(P.devfile) /\ F.kind = "map" /\ F.devices # <<>> /\ GeneralIterable(F.general)

\* the step is a direct call of checkParams
CheckParamsStep == cpRes'.n # cpRes.n

\* C6: with a devfile and a devlist configured, checkParams resolves the
\* directory to the devfile's devices with the devlist entry upserted by id
C6_DevlistOverridesDevfile ==
    [][(CheckParamsStep /\ ValidDevfile(Parameters, file) /\ ValidDevlist(Parameters)) =>
          /\ cpRes'.res = "true"
          /\ devlist' = upsert_by_id(file.devices[1], DevlistEntry(Parameters))]_vars

\* C7: upsert_by_id replaces the element with the entry's id in place, or
\* appends the entry when no element has that id; everything else is unchanged
C7_Upsert ==
    uDone =>
        LET same == {i \in 1..Len(uList) : IdOf(uList[i]) = IdOf(uEntry)}
        IN  IF same # {}
            THEN /\ Len(uOut) = Len(uList)
                 /\ \E k \in same :
                       /\ uOut[k] = uEntry
                       /\ \A i \in 1..Len(uList) : i # k => uOut[i] = uList[i]
            ELSE /\ Len(uOut) = Len(uList) + 1
                 /\ uOut[Len(uOut)] = uEntry
                 /\ \A i \in 1..Len(uList) : uOut[i] = uList[i]

C7_Witness ==
    /\ uDone
    /\ Len(uList) = 2
    /\ IdOf(uList[1]) = IdOf(uEntry)
    /\ uList[1] # uEntry
    /\ uOut = <<uEntry, uList[2]>>

NoSource(P) == ~Truthy(P.devfile) /\ ~Truthy(P.devlist)

\* C8: with neither devfile nor devlist configured, checkParams fails without
\* touching the topic index, the directory or the host's nodes, and
\* discover_cmd then returns failure with the flag released
C8_NoSourceFails ==
    [][\A t \in Threads :
          /\ (pc[t] = "checkParams" /\ pc'[t] # "checkParams" /\ NoSource(Parameters)) =>
                /\ pc'[t] = "release"
                /\ ~success'[t]
                /\ adds'[t] = 0 /\ dels'[t] = 0
                /\ UNCHANGED << indexVars, hostVars, devlist >>
          /\ (pc[t] = "release" /\ pc'[t] = "idle" /\ runCfg[t] # <<>> /\ NoSource(runCfg[t][1])) =>
                /\ result'[t] = "false"
                /\ ~discovery_in'
                /\ UNCHANGED << indexVars, hostVars, devlist >>]_vars

C8_Witness ==
    \E t \in Threads :
        /\ pc[t] = "idle" /\ result[t] = "false"
        /\ NoSource(Parameters)
        /\ ~discovery_in
        /\ Len(nodes) > 1

\* the ways of failing the configuration documents
ListedFailure(P, F) ==
    IF Truthy(P.devfile)
    THEN \/ F.kind \in {"oserror", "yamlerror", "null"}
         \/ F.kind = "map" /\ F.devices = <<>>
         \/ F.kind = "map" /\ ~GeneralIterable(F.general)
    ELSE Truthy(P.devlist) /\ ~ValidDevlist(P)

\* C9: a checkParams call that fails leaves the device directory and the
\* connection parameters as they were
C9_AllOrNothing ==
    [][(CheckParamsStep /\ ListedFailure(Parameters, file)) =>
          /\ cpRes'.res # "true"
          /\ devlist' = devlist
          /\ conn' = conn]_vars

ExplicitOrDefault(P, k) ==
    IF k = "mqtt_port"
    THEN _get_int(<<P[k], DEFAULT_CONFIG[k]>>)
    ELSE _get_str(<<P[k], DEFAULT_CONFIG[k]>>)

\* C10: with only a valid devlist configured and no devfile loaded before,
\* checkParams succeeds, upserts the entry and resolves every connection
\* parameter to its explicit value or else its default
C10_DevlistOnly ==
    [][(CheckParamsStep /\ ~Truthy(Parameters.devfile) /\ ValidDevlist(Parameters) /\ general = <<>>) =>
          /\ cpRes'.res = "true"
          /\ devlist' = upsert_by_id(devlist, DevlistEntry(Parameters))
          /\ \A k \in ConnKeys : conn'[k] = ExplicitOrDefault(Parameters, k)]_vars

\* the devices of the sources configured now: the devfile's device list and
\* the devlist entry
SourceDevices(P, F) ==
    (IF Truthy(P.devfile) /\ F.kind = "map" /\ F.devices # <<>>
     THEN {F.devices[1][i] : i \in 1..Len(F.devices[1])} ELSE {})
    \cup (IF Truthy(P.devlist) /\ ValidDevlist(P) THEN {DevlistEntry(P)} ELSE {})

\* C11: after a successful checkParams every device of the directory comes from
\* a source configured now, and with a single source configured the directory
\* holds exactly that source's devices
C11_DirectoryRebuilt ==
    [][(CheckParamsStep /\ cpRes'.res = "true") =>
          LET held == {devlist'[i] : i \in 1..Len(devlist')}
          IN  /\ held \subseteq SourceDevices(Parameters, file)
              /\ ~(Truthy(Parameters.devfile) /\ Truthy(Parameters.devlist)) =>
                    held = SourceDevices(Parameters, file)]_vars

\* the values a connection parameter is resolved from, in order: the explicit
\* parameter, the devfile's general value, the compiled default
Levels(P, g, k) == <<P[k], DictGet(g, k), DEFAULT_CONFIG[k]>>

StrUsable(c) == c.t = "str"
StrNonEmpty(c) == c.t = "str" /\ c.v # <<>>
PortUsable(c) == c.t = "int" \/ (c.t = "str" /\ IsDigit(c.v))

\* the first value of cands that Usable accepts, None when there is none
FirstOf(cands, Usable(_)) ==
    LET ok == {i \in 1..Len(cands) : Usable(cands[i])}
    IN  IF ok = {} THEN None ELSE cands[CHOOSE i \in ok : \A j \in ok : i <= j]

PortValue(c) == IF c.t = "str" THEN PyInt(ToInt(c.v)) ELSE c

\* C12 (as the code has it): after a successful checkParams each string
\* parameter is the first of explicit, general, default that is a string, the
\* empty string included, and the port is the first that is an integer or a
\* string of digits, a non-numeric value falling through to the next level
C12_FirstString ==
    [][(CheckParamsStep /\ cpRes'.res = "true") =>
          \A k \in ConnKeys :
              conn'[k] = IF k = "mqtt_port"
                         THEN PortValue(FirstOf(Levels(Parameters, general'[1], k), PortUsable))
                         ELSE FirstOf(Levels(Parameters, general'[1], k), StrUsable)]_vars

\* a successful call with an empty explicit server and a non-numeric explicit
\* port: the server is the empty string, the port the devfile's general value
C12_Witness ==
    /\ cpRes.res = "true"
    /\ Parameters.mqtt_server = PyStr(<<>>)
    /\ Parameters.mqtt_port = PyStr(<<"a", "b">>)
    /\ conn.mqtt_server = PyStr(<<>>)
    /\ conn.mqtt_port = PyInt(18)

\* C12 (as stated): an empty string is not usable for a string parameter, so
\* each string parameter is the first non-empty string of explicit, general,
\* default
C12_FirstNonEmpty ==
    [][(CheckParamsStep /\ cpRes'.res = "true") =>
          \A k \in ConnKeys :
              conn'[k] = IF k = "mqtt_port"
                         THEN PortValue(FirstOf(Levels(Parameters, general'[1], k), PortUsable))
                         ELSE FirstOf(Levels(Parameters, general'[1], k), StrNonEmpty)]_vars

\* _format_device_address has been called on its own and has returned
AddressDone == fnIn.fn = "address" /\ fnOut # <<>>

\* C13: the address derived for a device depends on its id only, is at most 14
\* characters long and holds no upper-case letter and no hyphen
C13_Address ==
    AddressDone =>
        LET a == fnOut[1]
        IN  /\ \A d \in AddressDevs : d.id = fnIn.dev.id => _format_device_address(d) = a
            /\ a = _format_device_address([id |-> fnIn.dev.id])
            /\ Len(a) <= 14
            /\ \A i \in 1..Len(a) : a[i] # "-" /\ ~(\E j \in 1..26 : Upper[j] = a[i])

\* an id of 15 characters with upper-case letters and a hyphen: its address is
\* cut to 14 characters, in lower case, the hyphen turned into an underscore
C13_Witness ==
    /\ AddressDone
    /\ fnIn.dev.id = S_LongStem \o <<"-", "K">>
    /\ fnOut[1] = <<"l", "i", "v", "i", "n", "g", "r", "o", "o", "m", "f", "a", "n", "_">>

\* the id with a hyphen in the place of its first underscore
HyphenForUnderscore(id) ==
    LET p == CHOOSE i \in Positions(id, "_") : \A j \in Positions(id, "_") : i <= j
    IN  [id EXCEPT ![p] = "-"]

\* an id of letters and digits with one underscore among its first 14 characters
PlainWithUnderscore(id) ==
    /\ Cardinality(Positions(id, "_")) = 1
    /\ \A p \in Positions(id, "_") : p <= 14
    /\ \A i \in 1..Len(id) : id[i] # "_" => id[i] \notin BadAddressChars

\* C14 (as the code has it): underscores are dropped and hyphens become
\* underscores, so an id of letters and digits with one underscore among its
\* first 14 characters and the id with a hyphen in its place derive different
\* addresses; Kitchen_Light derives kitchenlight, Kitchen-Light kitchen_light
C14_AddressesDiffer ==
    AddressDone =>
        /\ PlainWithUnderscore(fnIn.dev.id) =>
              fnOut[1] # _format_device_address([id |-> HyphenForUnderscore(fnIn.dev.id)])
        /\ fnIn.dev.id = S_KitchenUnderscore => fnOut[1] = <<"k", "i", "t", "c", "h", "e", "n", "l", "i", "g", "h", "t">>
        /\ fnIn.dev.id = S_KitchenHyphen => fnOut[1] = <<"k", "i", "t", "c", "h", "e", "n", "_", "l", "i", "g", "h", "t">>

C14_Witness ==
    /\ AddressDone
    /\ fnIn.dev.id = S_KitchenUnderscore
    /\ fnOut[1] # _format_device_address([id |-> S_KitchenHyphen])

\* C14 (as stated): an id with an underscore and the id with a hyphen in its
\* place derive the same address
C14_SameAddress ==
    (AddressDone /\ Positions(fnIn.dev.id, "_") # {}) =>
        fnOut[1] = _format_device_address([id |-> HyphenForUnderscore(fnIn.dev.id)])

\* _normalize_topic has been called on its own and has returned
NormalizeDone == fnIn.fn = "normalize" /\ fnOut # <<>>

\* C15: _normalize_topic returns the prefix followed by the topic without its
\* first character exactly when the topic starts with '~' and a prefix is
\* configured (is not None), the topic unchanged in every other case, and the
\* empty string for an absent topic
C15_Normalize ==
    NormalizeDone =>
        LET tp == fnIn.topic
            pf == fnIn.prefix
            placeholder == tp # None /\ Len(tp.v) >= 1 /\ tp.v[1] = "~"
        IN  /\ tp = None => fnOut[1] = <<>>
            /\ (placeholder /\ pf # None) =>
                  fnOut[1] = pf.v \o [i \in 1..(Len(tp.v) - 1) |-> tp.v[i + 1]]
            /\ (tp # None /\ ~(placeholder /\ pf # None)) => fnOut[1] = tp.v

\* normalize("~/p", "stat/") has returned "stat//p"
C15_Witness ==
    /\ NormalizeDone
    /\ fnIn.topic = PyStr(S_tildep)
    /\ fnIn.prefix = PyStr(STATUS_TOPIC_PREFIX)
    /\ fnOut[1] = <<"s", "t", "a", "t", "/", "/", "p">>

\* the topic part of _create_device_node has been run on its own
TopicsDone == fnIn.fn = "topics" /\ fnOut # <<>>

\* the topic with its last path segment replaced by the suffix ("/NAME")
WithLastSegment(tp, suffix) ==
    LET k == CHOOSE i \in Positions(tp, "/") : \A j \in Positions(tp, "/") : j <= i
    IN  [i \in 1..(k - 1) |-> tp[i]] \o suffix

\* the topic with a leading tele/ rewritten to stat/
TeleToStat(tp) ==
    IF Len(tp) >= 5 /\ [i \in 1..5 |-> tp[i]] = TELE_TOPIC_PREFIX
    THEN STATUS_TOPIC_PREFIX \o [i \in 1..(Len(tp) - 5) |-> tp[i + 5]]
    ELSE tp

\* C16: for a TempHumid, Temp, TempHumidPress or analog device the extra topic
\* bound to the device is its status topic with the last path segment replaced
\* by STATUS10 and a leading tele/ rewritten to stat/
C16_Status10Topic ==
    (TopicsDone /\ fnIn.dev["type"] \in {"TempHumid", "Temp", "TempHumidPress", "analog"}) =>
        LET st == fnOut[1].subs[1]
            extra == TeleToStat(WithLastSegment(st, STATUS10_TOPIC_SUFFIX))
        IN  Positions(st, "/") # {} =>
              /\ fnOut[1].subs = <<st, extra>>
              /\ extra \in DOMAIN fnOut[1].index
              /\ fnOut[1].index[extra] = _format_device_address(fnIn.dev)

RunDevices(t) == runCfg[t][2].devices[1]

\* the run of t has left _discover and is about to release the flag
RunEnds(t) == pc[t] = "release" /\ runCfg[t] # <<>> /\ runCfg[t][2].devices # <<>>

\* a spec with every required field and a type of the descriptor table
ValidSpec(dev) ==
    /\ {"id", "status_topic", "cmd_topic", "type"} \subseteq DOMAIN dev
    /\ dev["type"] \in {"switch", "dimmer", "ifan", "sensor", "flag", "TempHumid", "Temp",
                         "TempHumidPress", "distance", "shellyflood", "analog", "s31",
                         "raw", "RGBW", "ratgdo"}

\* a flood sensor whose status_topic is a list
FloodList(dev) == ValidSpec(dev) /\ dev["type"] = "shellyflood" /\ dev["status_topic"].t = "list"

\* C18: when a run ends, a shellyflood device whose status_topic is a list has
\* exactly the listed topics, each normalised, bound to its address and has its
\* node, and the other valid devices of the directory have theirs
C18_FloodListBound ==
    \A t \in Threads :
        RunEnds(t) =>
            \A i \in 1..Len(RunDevices(t)) :
                LET dev == RunDevices(t)[i]
                    listed == dev["status_topic"].v
                IN  FloodList(dev) =>
                      /\ BoundTo(status_topics_to_devices, _format_device_address(dev))
                            = {_normalize_topic(listed[k], conn.status_prefix) : k \in 1..Len(listed)}
                      /\ InSeq(nodes, _format_device_address(dev))
                      /\ \A j \in 1..Len(RunDevices(t)) :
                            ValidSpec(RunDevices(t)[j]) =>
                                InSeq(nodes, _format_device_address(RunDevices(t)[j]))

C20_DispatchedOnce ==
    [][(/\ mqpc = "route" /\ mqpc' = "idle"
        /\ \A t \in Threads : pc[t] = "idle"
        /\ mqmsg.topic \in DOMAIN status_topics_to_devices
        /\ InSeq(nodes, status_topics_to_devices[mqmsg.topic])) =>
          lastDispatch' = <<status_topics_to_devices[mqmsg.topic]>>]_vars

-----------------------------------------------------------------------------
(* Sensor routing *)

\* the step of _on_message that routes the message it accepted
RouteStep == mqpc = "route" /\ mqpc' = "idle"

\* the message is routed while no run is in progress, on a topic bound to a
\* device whose node exists
RoutingBound ==
    /\ RouteStep
    /\ \A t \in Threads : pc[t] = "idle"
    /\ mqmsg.topic \in DOMAIN status_topics_to_devices
    /\ InSeq(nodes, status_topics_to_devices[mqmsg.topic])

Declares(dev, sid) == "sensor_id" \in DOMAIN dev /\ dev["sensor_id"] = PyStr(sid)

\* C21: a payload {"ANALOG": {"A1": 42}} on a topic bound to a device with a
\* live node is dispatched to exactly that device whenever no device of the
\* directory declares sensor_id A1
C21_AnalogByTopic ==
    [][(/\ RoutingBound
        /\ mqmsg.payload = P_Analog1
        /\ \A i \in 1..Len(devlist) : ~Declares(devlist[i], S_A1)) =>
          lastDispatch' = <<status_topics_to_devices[mqmsg.topic]>>]_vars

\* the keys of the sub-sensor entries a parsed payload carries: the members of
\* its ANALOG container, else its members named after a sensor type
SubSensorKeys(data) ==
    IF HasKey(data.v, S_ANALOG) /\ ValueOf(data.v, S_ANALOG).t = "obj"
    THEN {ValueOf(data.v, S_ANALOG).v[i].k : i \in 1..Len(ValueOf(data.v, S_ANALOG).v)}
    ELSE {data.v[i].k : i \in {j \in 1..Len(data.v) :
                                 \E n \in 1..Len(SENSOR_PROCESSORS) :
                                     Contains(SENSOR_PROCESSORS[n], data.v[j].k)}}

\* the devices of the directory that own a sub-sensor of the message: they
\* listen on its topic, declare the key of one of its entries and have a node
Owners(dl, ns, msg) ==
    {i \in 1..Len(dl) :
        /\ "status_topic" \in DOMAIN dl[i] /\ dl[i]["status_topic"] = PyStr(msg.topic)
        /\ \E key \in SubSensorKeys(PayloadData(msg.payload)) : Declares(dl[i], key)
        /\ InSeq(ns, _format_device_address(dl[i]))}

Count(seq, x) == Cardinality({i \in 1..Len(seq) : seq[i] = x})

\* C22: a routed message with sub-sensor entries reaches every device that
\* owns one of the entries exactly once
C22_EachOwnerOnce ==
    [][(/\ RouteStep
        /\ \A t \in Threads : pc[t] = "idle"
        /\ mqmsg.payload.kind = "json") =>
          \A i \in Owners(devlist, nodes, mqmsg) :
              Count(lastDispatch', _format_device_address(devlist[i])) = 1]_vars

\* the device spec a sub-sensor key resolves to when sensor_id must equal the
\* key and the second path segments of the two topics must be equal
ExactSpecs(dl, topic, key) ==
    {i \in 1..Len(dl) :
        /\ Declares(dl[i], key)
        /\ "status_topic" \in DOMAIN dl[i] /\ dl[i]["status_topic"].t = "str"
        /\ Len(Split(dl[i]["status_topic"].v)) >= 2 /\ Len(Split(topic)) >= 2
        /\ Split(dl[i]["status_topic"].v)[2] = Split(topic)[2]}

\* the sensors _process_sensor_data hands to the router for a parsed object
SensorsOf(data) ==
    LET present == SelectSeq(SENSOR_PROCESSORS, LAMBDA st : HasKey(data.v, st))
    IN  IF present = <<>> THEN <<>> ELSE _extract_sensors(data.v, Head(present))

\* C23: when a single sub-sensor key is routed and no device spec has both
\* that sensor_id and the second topic segment of the message, the plain
\* topic lookup decides: the device bound to the topic receives the message
C23_ExactMatchOrTopic ==
    [][(/\ RoutingBound
        /\ mqmsg.payload.kind = "json"
        /\ Len(SensorsOf(PayloadData(mqmsg.payload))) = 1
        /\ SensorsOf(PayloadData(mqmsg.payload))[1].t = "str"
        /\ ExactSpecs(devlist, mqmsg.topic, SensorsOf(PayloadData(mqmsg.payload))[1].v) = {}) =>
          lastDispatch' = <<status_topics_to_devices[mqmsg.topic]>>]_vars

-----------------------------------------------------------------------------
(* Start-up and subscriptions *)

\* C25: while the controller is connected and no run of discover_cmd is in
\* progress, every topic of the topic index is subscribed on the connection
C25_IndexSubscribed ==
    (mqttc = "connected" /\ ~discovery_in /\ pc["t1"] = "idle") =>
        DOMAIN status_topics_to_devices \subseteq subscribed

\* C26: start() never gives up because the broker could not be reached
C26_StartSurvivesBroker == startpc # "failed_mqtt"

\* C27: when a run on a directory with a Droplet device ends, the device has
\* its node, and the topics <base>/state and <base>/health are bound to its
\* address and are in the subscription list
C27_DropletAccepted ==
    \A t \in Threads :
        (RunEnds(t) /\ \E i \in 1..Len(RunDevices(t)) : RunDevices(t)[i] = DevDroplet) =>
            LET state == S_dq \o <<"/", "s", "t", "a", "t", "e">>
                health == S_dq \o <<"/", "h", "e", "a", "l", "t", "h">>
            IN  /\ InSeq(nodes, _format_device_address(DevDroplet))
                /\ {state, health} \subseteq DOMAIN status_topics_to_devices
                /\ status_topics_to_devices[state] = _format_device_address(DevDroplet)
                /\ status_topics_to_devices[health] = _format_device_address(DevDroplet)
                /\ InSeq(status_topics, state) /\ InSeq(status_topics, health)

-----------------------------------------------------------------------------
(* Device handlers *)

\* C28: the commands an MQSwitch has reported alternate DON, DOF, DON, ...
\* starting with DON; a report is added only by an update that changes the
\* stored state, DON when it turns on and DOF when it turns off; and a step
\* that publishes leaves the stored state and the reports as they were
C28_Alternate ==
    /\ [](\A i \in 1..Len(swReported) : swReported[i] = IF i % 2 = 1 THEN "DON" ELSE "DOF")
    /\ [][swReported' # swReported =>
            /\ on_state' # on_state
            /\ swReported' = Append(swReported, IF on_state' THEN "DON" ELSE "DOF")
            /\ swST' = IF on_state' THEN SwON ELSE SwOFF]_vars
    /\ [][swPublished' # swPublished => UNCHANGED << on_state, swReported >>]_vars

\* the switch was turned on, off and on again by status updates, with host
\* commands published in between
C28_Witness ==
    /\ swReported = <<"DON", "DOF", "DON">>
    /\ on_state
    /\ swPublished = <<"OFF">>

\* C29: the stored level of an MQDimmer is between 0 and 100
C29_LevelInRange == dimmer \in OFF..FULL

\* a handler asked for a level above 100 and 100 was stored
C29_Witness == dimAsked # <<>> /\ dimAsked[1] > FULL /\ dimmer = FULL

\* the command that matches a change of the stored level: <<>> for none
ExpectedCmd(old, new) ==
    IF new = old THEN <<>>
    ELSE IF old = OFF THEN <<"DON">>
    ELSE IF new = OFF THEN <<"DOF">>
    ELSE IF new > old THEN <<"BRT">>
    ELSE <<"DIM">>

\* C30: the command an MQDimmer.updateInfo call reports matches the change of
\* the stored level it makes, and it reports nothing when it leaves the
\* stored level as it was
C30_ReportMatchesChange ==
    [][(dimOp' = "update" /\ dimVars' # dimVars) =>
          dimReported' = ExpectedCmd(dimmer, dimmer')]_vars

\* C31: after MQDimmer.on_cmd the stored level is at least INC and is the
\* level that was published
C31_OnNeverOff == dimOp = "on" => (dimmer >= INC /\ dimPublished = <<dimmer>>)

-----------------------------------------------------------------------------
(* Life cycle of the controller *)

\* C32: every run of discover_cmd that set discovery_in eventually ends with
\* the flag reset, the host acknowledging every node it is asked to add
C32_FlagReleased == discovery_in ~> (~discovery_in /\ pc["t1"] = "idle")

\* C33: once the parameter, data, typed-parameter and typed-data handlers have
\* all run, all_handlers_st_event is set, and start() does not time out
C33_AllRunSetsEvent ==
    (\A h \in Handlers : handler_st[h]) =>
        (all_handlers_st_event /\ startpc # "failed_handlers")

StartFailed == startpc \in {"failed_handlers", "failed", "failed_mqtt", "raised"}

\* the part of C34 about the order: ready_event is set only by a start() whose
\* handlers completed, whose discovery succeeded and whose connection is
\* established and subscribed
ReadyInOrder ==
    [][(ready_event' /\ ~ready_event) =>
          /\ all_handlers_st_event
          /\ prevRun.res = "true"
          /\ mqttc = "connected"
          /\ \A i \in 1..Len(status_topics) : status_topics[i] \in subscribed']_vars

\* C34: ready_event is set only after the handlers completed, the first
\* discovery succeeded and the connection was established and subscribed; when
\* one of these steps fails, ST is 2, an error notice is posted and
\* ready_event is not set
C34_FailureReported ==
    /\ StartFailed => (ctrlST = 2 /\ "error" \in Notices /\ ~ready_event)
    /\ ready_event => (all_handlers_st_event /\ startpc = "done")

\* C35: before ready_event is set, a poll event reports no command to the
\* host and leaves hb unchanged
C35_NoHeartbeatBeforeReady ==
    /\ [](~ready_event => pollReported = <<>>)
    /\ [][(~ready_event /\ startpc' = startpc) => hb' = hb]_vars

-----------------------------------------------------------------------------
(* Reconciliation and the host's nodes *)

\* C36: reconciliation never removes the controller's own node, whatever
\* address the controller was registered under
C36_ControllerKept == \E i \in 1..Len(nodes) : nodes[i] \in RegisteredAddresses

\* the topics _create_device_node derives for a spec of the configuration
ConfiguredTopics(dev) ==
    LET topics == DeviceTopics(DevAfterCreate(dev, conn), conn.status_prefix)
    IN  {topics[k] : k \in 1..Len(topics)}

\* C37: when a successful run ends, every topic derived from the configuration
\* the run read for a valid device of a known type is bound to the address of
\* that device, also when the node of the device existed before the run
C37_IndexMatchesConfig ==
    \A t \in Threads :
        (RunEnds(t) /\ success[t]) =>
            \A i \in 1..Len(RunDevices(t)) :
                LET dev == RunDevices(t)[i] IN
                ValidSpec(dev) =>
                    \A tp \in ConfiguredTopics(dev) :
                        /\ tp \in DOMAIN status_topics_to_devices
                        /\ status_topics_to_devices[tp] = _format_device_address(dev)

\* C38: while no run of discover_cmd is in progress, status_topics holds each
\* topic once and its topics are the keys of status_topics_to_devices
C38_SubscriptionsMatchIndex ==
    (\A t \in Threads : pc[t] = "idle") =>
        /\ \A i, j \in 1..Len(status_topics) : status_topics[i] = status_topics[j] => i = j
        /\ {status_topics[i] : i \in 1..Len(status_topics)} = DOMAIN status_topics_to_devices

\* the device nodes the host holds: every node but the controller's
DeviceNodes == {nodes[i] : i \in 1..Len(nodes)} \ {CtrlAddress}

\* C39: when a successful run ends, numNodes is the number of device nodes on
\* the host
C39_CountMatchesHost ==
    \A t \in Threads :
        (pc[t] = "release" /\ success[t]) => numNodes = Cardinality(DeviceNodes)

====
